---------------------------- MODULE Spec2Model ----------------------------
(***************************************************************************)
(* Neurotempo: the Muse backend's read_metrics pipeline                    *)
(* (src/neurotempo/brain/brainflow_muse.py), the session screen's break    *)
(* policy (src/neurotempo/ui/session.py), the pre-session electrode check  *)
(* (src/neurotempo/brain/sensor_quality.py) and the main window's          *)
(* connection watchdog with its reconnect worker                           *)
(* (src/neurotempo/ui/main_window.py).                                     *)
(*                                                                         *)
(* Numbers.  Band powers are integers in percent.  A focus score is kept   *)
(* exactly, in units of 1/(FocusDen * MeanDen); a fatigue score in units   *)
(* of 1/(FatigueDen * MeanDen): (raw + 0.25)/0.75 on percent bands is      *)
(* (115b + 25a - 90t + 2500)/7500, and the mean of k <= smooth_n history   *)
(* entries is sum * (MeanDen / k) with MeanDen = smooth_n!.  So "focus ==  *)
(* 0.0" and equality of two snapshots mean in the model what they mean in  *)
(* the code.  Times are tenths of a second for window_sec and whole        *)
(* seconds for the session clock.                                          *)
(***************************************************************************)
EXTENDS Integers, Sequences, FiniteSets, TLC

VARIABLES
    \* ---- BrainFlowMuseBrain (brainflow_muse.py)
    window_sec,          \* constructor argument, in tenths of a second
    connected,           \* self._connected
    board,               \* self.board is not None
    ppg_channels,        \* len(self.ppg_channels)
    focus_hist,          \* self._focus_hist   (deque, maxlen smooth_n)
    fatigue_hist,        \* self._fatigue_hist (deque, maxlen smooth_n)
    last_valid_eeg_count,
    last_worn,
    last_reject_reason,
    worn_hits,
    not_worn_hits,
    warmup_reads_left,
    grace_reads_left,
    last_good,
    \* ---- what the last call did (observation of the run, not program state)
    ret,                 \* [exc, m]: what the last read_metrics returned or raised
    path,                \* the branch the last call ended in
    bad_run,             \* consecutive not-ready / NOT_WORN ticks since the last fresh snapshot, -1: none
    nr_run,              \* consecutive not-ready ticks since the last fresh snapshot, -1: none
    worn_run,            \* consecutive worn instant readings
    nw_run,              \* consecutive ticks whose instant reading was not-worn
    lifecycle,           \* "new": no fresh snapshot yet; "used": one was returned;
                         \* "stopped": stop() ran after that; "restarted": start()
                         \* succeeded after that stop
    \* ---- SessionScreen (session.py)
    baseline_focus,      \* constructor argument, in percent
    now,                 \* time.time(), in whole seconds
    start_ts,
    focus_ema,           \* in percent
    fatigue_ema,         \* in percent
    low_seconds,
    last_break_ts,       \* 0: no break yet
    breaks_triggered,
    signal_ok,
    warmup_seen,         \* self._warmup_seen
    samples,             \* statistics: snapshots processed
    focus_sum,           \* in percent
    hr_sum,
    spo2_sum,
    hr_samples,
    spo2_samples,
    \* ---- what the last update_metrics did (observation of the run)
    popups,              \* number of show_break_popup calls so far
    fired,               \* the last update_metrics called show_break_popup
    cond_run,            \* consecutive processed ticks on which the policy condition held
    steady,              \* so far: one tick per second, and the policy condition
                         \* held on every tick from elapsed = grace_s on
    spath,               \* the branch the last update_metrics ended in
    low_before,          \* low_seconds when the last update_metrics began
    \* ---- SessionScreen._low_threshold on its own
    thr_in,              \* [baseline, multiplier, tmin, tmax], percent
    thr_out,             \* the threshold returned, in 1/10000; -1: not called yet
    \* ---- MuseSensorQuality (sensor_quality.py)
    sq_checked,          \* self._resistance_supported_checked
    sq_channels,         \* len(self._resistance_channels or [])
    sq_ret,              \* [exc, scores]: what the last read() returned or raised
    sq_call,             \* how the last read() found the backend
    sq_in,               \* the per-channel values the last read() scored (medians
                         \* in kOhm or standard deviations), <<>>: none
    \* ---- PreSessionScreen (presession.py)
    start_btn,           \* self.start_btn.isEnabled()
    dots,                \* the dots TP9, AF7, AF8, TP10: TRUE is green
    \* ---- CalibrationScreen (calibration.py)
    cal_running,         \* self._running
    cal_elapsed,         \* self._elapsed
    cal_samples,         \* self._samples, in percent
    cal_warmup_seen,     \* self._warmup_seen
    cal_timer,           \* self.timer.isActive()
    \* ---- what the calibration did (observation of the run)
    cal_done,            \* the baselines handed to QTimer.singleShot(1200, on_done), in order
    cal_last,            \* the branch the last start() or _tick() ended in
    \* ---- MainWindow (main_window.py): watchdog and automatic reconnect
    modal_open,          \* self._disconnect_modal_open
    reconnecting,        \* self._reconnecting
    last_sample_ts,      \* self._last_sample_ts, NoTs: None
    stale_ticks,         \* self._stale_ticks
    inflight,            \* self._auto_reconnect_inflight
    resume_widget,       \* self._resume_widget, "none": None
    screen,              \* self.stack.currentWidget()
    wpc,                 \* where the _OneShotReconnectWorker thread is in run():
                         \* "none": no thread running, "stop": before brain.stop(),
                         \* "sleep": stopped, before brain.start(), "start":
                         \* inside brain.start()
    done_q,              \* done signals emitted and not yet delivered to the main thread
    retry_pending,       \* QTimer.singleShot(900, do_retry) is armed
    reading,             \* the main thread is inside read_metrics, past its connected check
    ticking,             \* the screen timers that are running and call read_metrics:
                         \* "calibration" (CalibrationScreen.timer), "session"
                         \* (the timer of the SessionScreen that exists)
    \* ---- what the watchdog and the worker did (observation of the run)
    stale_run,           \* evaluated watchdog ticks in a row that saw no newer sample
    wd_last,             \* the branch the last watchdog tick ended in
    running,             \* worker threads started and not yet finished
    emitted,             \* done signals the current attempt has emitted
    done_last,           \* what the last _on_auto_reconnect_done was told
    race                 \* "overlap": the worker ran stop()/start() during the
                         \* read_metrics call in progress; "written": that call then
                         \* wrote its window into the state the worker had reset

brainVars == <<window_sec, connected, board, ppg_channels, focus_hist, fatigue_hist,
               last_valid_eeg_count, last_worn, last_reject_reason, worn_hits,
               not_worn_hits, warmup_reads_left, grace_reads_left, last_good>>
brainObs == <<ret, path, bad_run, nr_run, worn_run, nw_run, lifecycle>>

sessionVars == <<baseline_focus, now, start_ts, focus_ema, fatigue_ema, low_seconds,
                 last_break_ts, breaks_triggered, signal_ok, warmup_seen,
                 samples, focus_sum, hr_sum, spo2_sum, hr_samples, spo2_samples>>
statVars == <<samples, focus_sum, hr_sum, spo2_sum, hr_samples, spo2_samples>>
sessionObs == <<popups, fired, cond_run, steady, spath, low_before>>

thrVars == <<thr_in, thr_out>>
sqVars == <<sq_checked, sq_channels, sq_ret, sq_call, sq_in, start_btn, dots>>

wdVars == <<modal_open, reconnecting, last_sample_ts, stale_ticks, inflight,
            resume_widget, screen, wpc, done_q, retry_pending, reading, ticking>>
wdObs == <<stale_run, wd_last, running, emitted, done_last, race>>
calVars == <<cal_running, cal_elapsed, cal_samples, cal_warmup_seen, cal_timer,
             cal_done, cal_last>>

vars == <<brainVars, brainObs, sessionVars, sessionObs, thrVars, sqVars, wdVars, wdObs,
          calVars>>

-----------------------------------------------------------------------------
(* Bounds of the model *)

\* smooth_n, the length of the trailing histories (constructor argument)
SmoothN == 2
\* worn / not-worn hit counters grow without bound in the code; ticks that
\* would push one past MaxHits are not taken
MaxHits == 3
\* the run observers saturate here (above the longest hold modelled)
RunCap == 6
\* the session settings, scaled down from 120 s / 25 s / 480 s
GraceS == 6
LowRequiredS == 3
CooldownS == 4
\* the session clock: its reading at construction, the longest session
\* modelled, and the longest gap between two timer ticks (seconds)
StartClock == 1
MaxTime == 14
MaxDt == 2
\* band powers over which the scoring functions are evaluated: multiples of
\* 1/BandParts
BandParts == 5
\* the timestamps the watchdog reads from the ring buffer are 1..MaxTs
MaxTs == 2
\* the calibration length (the seconds argument of CalibrationScreen) and the
\* number of calibration runs followed
CalSeconds == 3
MaxRuns == 2

-----------------------------------------------------------------------------
(* Program constants *)

debounce_needed == 3
warmup_reads_needed == 4
grace_hold_sec == 25          \* 2.5 s, in tenths
MinWindowSec == 5             \* max(self.window_sec, 0.5), in tenths
FocusDen == 7500              \* (raw + 0.25) / 0.75 on percent bands
FatigueDen == 7000            \* (raw + 0.10) / 0.70 on percent bands
StdLow == 3
StdHigh == 250
HrMin == 35
HrMax == 200
Spo2Min == 70
Spo2Max == 100

Max(a, b) == IF a >= b THEN a ELSE b
Min(a, b) == IF a <= b THEN a ELSE b

RECURSIVE Fact(_)
Fact(n) == IF n <= 1 THEN 1 ELSE n * Fact(n - 1)

smooth_n == Max(2, SmoothN)
MeanDen == Fact(smooth_n)

RECURSIVE SumSeq(_)
SumSeq(s) == IF s = <<>> THEN 0 ELSE Head(s) + SumSeq(Tail(s))

BrainMetrics(f, g, h, o) == [focus |-> f, fatigue |-> g, heart_rate |-> h, spo2 |-> o]
Zero == BrainMetrics(0, 0, 0, 0)

Returned(m) == [exc |-> "none", m |-> m]
Raised(e) == [exc |-> e, m |-> Zero]

-----------------------------------------------------------------------------
(* Inputs of one tick *)

\* window_sec values the constructor is given (tenths of a second)
WindowSecs == {5, 10, 20}

\* per-channel standard deviations of the EEG window (TP9, AF7, AF8, TP10)
EegWindows == { <<0, 1, 300, 2>>, <<50, 40, 300, 45>> }

\* relative band powers (theta, alpha, beta) in percent
Bands == { [theta |-> 10, alpha |-> 20, beta |-> 40],     \* engaged
           [theta |-> 60, alpha |-> 20, beta |-> 10],     \* drowsy: focus clips to 0
           [theta |-> 0,  alpha |-> 45, beta |-> 55],     \* focus clips to 1
           [theta |-> 10, alpha |-> 10, beta |-> 80],     \* beta > 0.75
           [theta |-> 5,  alpha |-> 10, beta |-> 60] }    \* beta > 0.55, alpha + theta < 0.20

\* what the PPG block reads: ready: the PPG window is long enough; peak: the
\* spectral peak in bpm (-1: signal shorter than 2 s); oxy: the rounded
\* DataFilter.get_oxygen_level (-1: it raised)
PpgRead(r, p, o) == [ready |-> r, peak |-> p, oxy |-> o]
PpgReads == { PpgRead(FALSE, -1, -1), PpgRead(TRUE, -1, 97), PpgRead(TRUE, 30, 97),
              PpgRead(TRUE, 72, 97), PpgRead(TRUE, 72, 60), PpgRead(TRUE, 72, -1),
              PpgRead(TRUE, 210, 104) }

\* relative (theta, alpha, beta) powers in percent, each a multiple of
\* 1/BandParts, together at most 1 (delta and gamma take the rest)
BandGrid ==
    LET u == 100 \div BandParts
    IN  { b \in [theta : {i * u : i \in 0..BandParts},
                 alpha : {i * u : i \in 0..BandParts},
                 beta  : {i * u : i \in 0..BandParts}] :
            b.theta + b.alpha + b.beta <= 100 }

\* how BrainMetrics spells "not available" for heart_rate and spo2 (None)
Unavailable == -1

-----------------------------------------------------------------------------
(* Helpers of BrainFlowMuseBrain *)

\* Python's round(n / d) on a value exactly representable: half to even
RoundHalfEven(n, d) ==
    LET q == n \div d
        r == n % d
    IN  IF 2 * r < d THEN q
        ELSE IF 2 * r > d THEN q + 1
        ELSE IF q % 2 = 0 THEN q ELSE q + 1

\* _begin_grace_hold: the number of read cycles the hold lasts
HoldReads(ws) == Max(1, RoundHalfEven(grace_hold_sec, Max(ws, MinWindowSec)))

\* the guard in front of every _begin_grace_hold call
ShouldBeginHold(gl, lg) == gl = 0 /\ (lg.heart_rate # 0 \/ lg.focus # 0)

\* "if <guard>: self._begin_grace_hold()" followed by "return self._grace_return()":
\* the countdown left and the snapshot returned
GraceReturn(gl, lg, ws) ==
    LET g1 == IF ShouldBeginHold(gl, lg) THEN HoldReads(ws) ELSE gl
    IN  IF g1 > 0 THEN [left |-> g1 - 1, m |-> lg]
                  ELSE [left |-> g1, m |-> Zero]

\* _channel_valid_mask, summed: the number of channels with 3 < std < 250
ValidCount(stds) ==
    Cardinality({i \in DOMAIN stds : stds[i] > StdLow /\ stds[i] < StdHigh})

\* _vote_worn with a slip: a not-worn reading leaves _worn_hits standing
VoteWorn_NoReset(lw, wh, nh, wl, worn_now) ==
    LET wh1 == IF worn_now THEN wh + 1 ELSE wh
        nh1 == IF worn_now THEN 0 ELSE nh + 1
        lw1 == IF wh1 >= debounce_needed THEN TRUE
               ELSE IF nh1 >= debounce_needed THEN FALSE
               ELSE lw
    IN  [last_worn |-> lw1, worn_hits |-> wh1, not_worn_hits |-> nh1,
         warmup |-> IF lw1 # lw THEN warmup_reads_needed ELSE wl]

\* _vote_worn with a slip: a flip does not start the warm-up countdown
VoteWorn_NoWarmup(lw, wh, nh, wl, worn_now) ==
    LET wh1 == IF worn_now THEN wh + 1 ELSE 0
        nh1 == IF worn_now THEN 0 ELSE nh + 1
        lw1 == IF wh1 >= debounce_needed THEN TRUE
               ELSE IF nh1 >= debounce_needed THEN FALSE
               ELSE lw
    IN  [last_worn |-> lw1, worn_hits |-> wh1, not_worn_hits |-> nh1,
         warmup |-> wl]

\* _vote_worn on (last_worn, _worn_hits, _not_worn_hits, _warmup_reads_left)
VoteWorn(lw, wh, nh, wl, worn_now) ==
    LET wh1 == IF worn_now THEN wh + 1 ELSE 0
        nh1 == IF worn_now THEN 0 ELSE nh + 1
        lw1 == IF wh1 >= debounce_needed THEN TRUE
               ELSE IF nh1 >= debounce_needed THEN FALSE
               ELSE lw
    IN  [last_worn |-> lw1, worn_hits |-> wh1, not_worn_hits |-> nh1,
         warmup |-> IF lw1 # lw THEN warmup_reads_needed ELSE wl]

\* _noise_sanity_gate: "" when the bands pass, else the reject reason
NoiseReject(b) ==
    IF b.beta > 55 /\ b.alpha + b.theta < 20 THEN "noise_beta_dominant"
    ELSE IF b.beta > 75 THEN "noise_extreme_beta"
    ELSE ""

\* np.clip with a slip: the upper limit is not applied
Clip_NoUpper(x, lo, hi) == IF x < lo THEN lo ELSE x

Clip(x, lo, hi) == IF x < lo THEN lo ELSE IF x > hi THEN hi ELSE x

\* _focus_from_bands, in units of 1/FocusDen
FocusFromBands(b) ==
    Clip(115 * b.beta + 25 * b.alpha - 90 * b.theta + 2500, 0, FocusDen)

\* _fatigue_from_bands, in units of 1/FatigueDen
FatigueFromBands(b) ==
    Clip(110 * b.theta + 20 * b.alpha - 60 * b.beta + 1000, 0, FatigueDen)

\* deque(maxlen = smooth_n).append
Append_(h, x) ==
    IF Len(h) >= smooth_n THEN Append(Tail(h), x) ELSE Append(h, x)

\* np.mean of a non-empty history, in units of 1/MeanDen of the entries' unit
Mean(h) == SumSeq(h) * (MeanDen \div Len(h))

\* _estimate_hr_from_ppg with a slip: the bpm range check is missing
EstimateHr_NoRange(peak) == IF peak < 0 THEN 0 ELSE peak

\* _estimate_hr_from_ppg, given the spectral peak in bpm (-1: too short)
EstimateHr(peak) ==
    IF peak < 0 THEN 0
    ELSE IF peak < HrMin \/ peak > HrMax THEN 0
    ELSE peak

\* the SpO2 range check of read_metrics
Spo2From(oxy) == IF oxy < Spo2Min \/ oxy > Spo2Max THEN 0 ELSE oxy

-----------------------------------------------------------------------------
(* State after BrainFlowMuseBrain.__init__ *)

InitBrain ==
    /\ window_sec \in WindowSecs
    /\ connected = FALSE
    /\ board = FALSE
    /\ ppg_channels = 0
    /\ focus_hist = <<>>
    /\ fatigue_hist = <<>>
    /\ last_valid_eeg_count = 0
    /\ last_worn = FALSE
    /\ last_reject_reason = ""
    /\ worn_hits = 0
    /\ not_worn_hits = 0
    /\ warmup_reads_left = 0
    /\ grace_reads_left = 0
    /\ last_good = Zero
    /\ ret = Returned(Zero)
    /\ path = "init"
    /\ bad_run = -1
    /\ nr_run = -1
    /\ worn_run = 0
    /\ nw_run = 0
    /\ lifecycle = "new"

Bump(r) == IF r < 0 THEN -1 ELSE Min(r + 1, RunCap)
BumpReading(r) == Min(r + 1, debounce_needed + 1)

\* the reset with a slip: the last-good snapshot survives
ResetSmoothing_KeepsLastGood(warm) ==
    /\ focus_hist' = <<>>
    /\ fatigue_hist' = <<>>
    /\ last_valid_eeg_count' = 0
    /\ last_worn' = FALSE
    /\ last_reject_reason' = ""
    /\ worn_hits' = 0
    /\ not_worn_hits' = 0
    /\ warmup_reads_left' = warm
    /\ grace_reads_left' = 0
    /\ UNCHANGED last_good

\* the fields stop() and the tail of a successful start() both reset
ResetSmoothing(warm) ==
    /\ focus_hist' = <<>>
    /\ fatigue_hist' = <<>>
    /\ last_valid_eeg_count' = 0
    /\ last_worn' = FALSE
    /\ last_reject_reason' = ""
    /\ worn_hits' = 0
    /\ not_worn_hits' = 0
    /\ warmup_reads_left' = warm
    /\ grace_reads_left' = 0
    /\ last_good' = Zero

ResetObs(p, r) ==
    /\ ret' = r
    /\ path' = p
    /\ bad_run' = -1
    /\ nr_run' = -1
    /\ worn_run' = 0
    /\ nw_run' = 0

\* start() that succeeds; ppg is the number of PPG channels the board reports
StartOk(ppg) ==
    /\ connected' = TRUE
    /\ board' = TRUE
    /\ ppg_channels' = ppg
    /\ ResetSmoothing(warmup_reads_needed)
    /\ ResetObs("start", Returned(Zero))
    /\ lifecycle' = IF lifecycle = "stopped" THEN "restarted" ELSE lifecycle
    /\ UNCHANGED window_sec

\* stop()
Stop ==
    /\ connected' = FALSE
    /\ board' = FALSE
    /\ ResetSmoothing(0)
    /\ ResetObs("stop", Returned(Zero))
    /\ lifecycle' = IF lifecycle = "new" THEN "new" ELSE "stopped"
    /\ UNCHANGED <<window_sec, ppg_channels>>

\* the failing start() with a slip: the except block raises MuseNotReady
\* without calling stop(), so the board handle made at its top and the
\* smoothing state stay as they are
StartFail_NoStop ==
    /\ board' = TRUE
    /\ ResetObs("start_failed", Raised("MuseNotReady"))
    /\ UNCHANGED <<window_sec, connected, ppg_channels, focus_hist, fatigue_hist,
                   last_valid_eeg_count, last_worn, last_reject_reason, worn_hits,
                   not_worn_hits, warmup_reads_left, grace_reads_left, last_good,
                   lifecycle>>

\* start() in which a step raises: stop() runs and MuseNotReady is raised
StartFail ==
    /\ connected' = FALSE
    /\ board' = FALSE
    /\ ResetSmoothing(0)
    /\ ResetObs("start_failed", Raised("MuseNotReady"))
    /\ lifecycle' = IF lifecycle = "new" THEN "new" ELSE "stopped"
    /\ UNCHANGED <<window_sec, ppg_channels>>

\* the PPG block of read_metrics: (heart_rate, spo2) of the fresh snapshot.
\* ppg: number of PPG channels; ready: the PPG window is long enough;
\* peak: spectral peak in bpm (-1: shorter than 2 s); oxy: rounded oxygen
\* level (-1: get_oxygen_level raised)
Vitals(ppg, ready, peak, oxy) ==
    IF ppg = 0 \/ ~ready THEN [heart_rate |-> 0, spo2 |-> 0]
    ELSE LET hr == EstimateHr(peak)
         IN  IF ppg > 1 /\ hr > 0
             THEN IF oxy < 0 THEN [heart_rate |-> 0, spo2 |-> 0]
                  ELSE [heart_rate |-> hr, spo2 |-> Spo2From(oxy)]
             ELSE [heart_rate |-> hr, spo2 |-> 0]

\* read_metrics while not connected: raises MuseNotReady before touching state
ReadNotConnected ==
    /\ ~connected \/ ~board
    /\ ret' = Raised("MuseNotReady")
    /\ path' = "raise"
    /\ UNCHANGED <<brainVars, bad_run, nr_run, worn_run, nw_run, lifecycle>>

\* the not-ready branch with a slip: the tick is counted as a warm-up read
ReadNotReadyBody_ConsumesWarmup ==
    /\ LET g == GraceReturn(grace_reads_left, last_good, window_sec)
       IN  /\ grace_reads_left' = g.left
           /\ ret' = Returned(g.m)
    /\ last_reject_reason' = ""
    /\ path' = "notready"
    /\ bad_run' = Bump(bad_run)
    /\ nr_run' = Bump(nr_run)
    /\ warmup_reads_left' = Max(0, warmup_reads_left - 1)
    /\ UNCHANGED <<window_sec, connected, board, ppg_channels, focus_hist, fatigue_hist,
                   last_valid_eeg_count, last_worn, worn_hits, not_worn_hits,
                   last_good, worn_run, nw_run, lifecycle>>

\* read_metrics when the window is missing or too short (data is None or
\* data.shape[1] < n): grace hold, nothing else is touched
ReadNotReadyBody ==
    /\ LET g == GraceReturn(grace_reads_left, last_good, window_sec)
       IN  /\ grace_reads_left' = g.left
           /\ ret' = Returned(g.m)
    /\ last_reject_reason' = ""
    /\ path' = "notready"
    /\ bad_run' = Bump(bad_run)
    /\ nr_run' = Bump(nr_run)
    /\ UNCHANGED <<window_sec, connected, board, ppg_channels, focus_hist, fatigue_hist,
                   last_valid_eeg_count, last_worn, worn_hits, not_worn_hits,
                   warmup_reads_left, last_good, worn_run, nw_run, lifecycle>>

\* the same, entered through the connected check of line 301
ReadNotReady ==
    /\ connected /\ board
    /\ ReadNotReadyBody

\* the clearing with a slip: the fatigue history is left standing
ClearHistories_FocusOnly ==
    /\ focus_hist' = <<>>
    /\ UNCHANGED fatigue_hist

\* self._focus_hist.clear(); self._fatigue_hist.clear()
ClearHistories ==
    /\ focus_hist' = <<>>
    /\ fatigue_hist' = <<>>

\* the tail of read_metrics with a slip: the snapshot returned is not saved
SaveLastGood_NoRefresh(out) ==
    /\ UNCHANGED last_good
    /\ grace_reads_left' = 0

\* the tail of read_metrics: save as last good and clear the grace hold
SaveLastGood(out) ==
    /\ last_good' = out
    /\ grace_reads_left' = 0

\* read_metrics from line 315 on, on a full EEG window with channel
\* deviations stds and band powers b; the PPG block reads one of PpgReads
ReadWindowBody(stds, b) ==
    LET n == ValidCount(stds)
        worn_now == n > 0
        v1 == VoteWorn(last_worn, worn_hits, not_worn_hits, warmup_reads_left, worn_now)
        rej == NoiseReject(b)
        v2 == VoteWorn(v1.last_worn, v1.worn_hits, v1.not_worn_hits, v1.warmup, FALSE)
        g == GraceReturn(grace_reads_left, last_good, window_sec)
        fh == Append_(focus_hist, FocusFromBands(b))
        gh == Append_(fatigue_hist, FatigueFromBands(b))
        Out(vit) == BrainMetrics(Mean(fh), Mean(gh), vit.heart_rate, vit.spo2)
        Outs == {Out(Vitals(ppg_channels, q.ready, q.peak, q.oxy)) : q \in PpgReads}
        p == IF ~v1.last_worn THEN "notworn"
             ELSE IF rej # "" THEN "noise"
             ELSE IF v1.warmup > 0 THEN "warmup"
             ELSE "fresh"
        v == IF p = "noise" THEN v2 ELSE v1
    IN  /\ v.worn_hits <= MaxHits /\ v.not_worn_hits <= MaxHits
        /\ last_valid_eeg_count' = n
        /\ last_worn' = v.last_worn
        /\ worn_hits' = v.worn_hits
        /\ not_worn_hits' = v.not_worn_hits
        /\ last_reject_reason' = IF p = "noise" THEN rej ELSE ""
        /\ path' = p
        /\ worn_run' = IF worn_now THEN BumpReading(worn_run) ELSE 0
        /\ nw_run' = IF worn_now THEN 0 ELSE BumpReading(nw_run)
        /\ lifecycle' = IF p = "fresh" THEN "used" ELSE lifecycle
        /\ CASE p = "notworn" ->
                  /\ grace_reads_left' = g.left
                  /\ ret' = Returned(g.m)
                  /\ ClearHistories
                  /\ warmup_reads_left' = v.warmup
                  /\ bad_run' = Bump(bad_run)
                  /\ nr_run' = -1
                  /\ UNCHANGED last_good
             [] p = "noise" ->
                  /\ grace_reads_left' = g.left
                  /\ ret' = Returned(g.m)
                  /\ ClearHistories
                  /\ warmup_reads_left' = v.warmup
                  /\ bad_run' = -1
                  /\ nr_run' = -1
                  /\ UNCHANGED last_good
             [] p = "warmup" ->
                  /\ warmup_reads_left' = v.warmup - 1
                  /\ ret' = Returned(Zero)
                  /\ ClearHistories
                  /\ bad_run' = -1
                  /\ nr_run' = -1
                  /\ UNCHANGED <<grace_reads_left, last_good>>
             [] p = "fresh" ->
                  /\ focus_hist' = fh /\ fatigue_hist' = gh
                  /\ \E out \in Outs :
                        /\ SaveLastGood(out)
                        /\ ret' = Returned(out)
                  /\ warmup_reads_left' = v.warmup
                  /\ bad_run' = 0
                  /\ nr_run' = 0
        /\ UNCHANGED <<window_sec, connected, board, ppg_channels>>

\* read_metrics on a full EEG window, entered through the connected check
ReadWindow(stds, b) ==
    /\ connected /\ board
    /\ ReadWindowBody(stds, b)

\* BrainFlowMuseBrain.read_metrics
ReadMetrics ==
    \/ ReadNotConnected
    \/ ReadNotReady
    \/ \E stds \in EegWindows, b \in Bands : ReadWindow(stds, b)

-----------------------------------------------------------------------------
(* SessionScreen: the break policy of update_metrics *)

\* the AppSettings the session is built with (percent for the 0..1 values)
settings ==
    [ema_alpha |-> 35, grace_s |-> GraceS, low_required_s |-> LowRequiredS,
     cooldown_s |-> CooldownS, fatigue_gate |-> 45,
     threshold_multiplier |-> 70, threshold_min |-> 25, threshold_max |-> 60]

\* baselines the calibration hands over (it clamps to [0.25, 1.0]), percent
Baselines == {25, 60}

\* what brain.read_metrics gives the session: a snapshot (percent) or an exception
SessionReads ==
    { Raised("MuseNotReady"), Raised("Exception"),
      Returned(Zero),
      Returned(BrainMetrics(5, 95, 72, 97)),      \* low focus, fatigued
      Returned(BrainMetrics(5, 10, 72, 97)),      \* low focus, not fatigued
      Returned(BrainMetrics(90, 10, 0, 0)) }      \* focused

\* one EMA step, (1 - a) * old + a * x, on percent values (rounded down)
Ema(a, old, x) == ((100 - a) * old + a * x) \div 100

\* max(threshold_min, min(threshold_max, baseline * multiplier)) on percent
\* arguments; the result is exact, in units of 1/10000
LowThresholdOf(baseline, multiplier, tmin, tmax) ==
    Max(tmin * 100, Min(tmax * 100, baseline * multiplier))

\* _low_threshold of the session, in units of 1/10000
LowThreshold(baseline) ==
    LowThresholdOf(baseline, settings.threshold_multiplier,
                   settings.threshold_min, settings.threshold_max)

\* _fatigue_gate
FatigueGate == settings.fatigue_gate

\* in_grace with a slip: the comparison is turned around
InGrace_Reversed(elapsed) == elapsed > settings.grace_s

\* in_grace with a slip: the tick at elapsed = grace_s still counts as grace
InGrace_Inclusive(elapsed) == elapsed <= settings.grace_s

\* in_grace
InGrace(elapsed) == elapsed < settings.grace_s

\* in_cooldown with a slip: the comparison is turned around
InCooldown_Reversed(t, lbt) ==
    IF lbt > 0 THEN (t - lbt) > settings.cooldown_s ELSE FALSE

\* in_cooldown
InCooldown(t, lbt) ==
    IF lbt > 0 THEN (t - lbt) < settings.cooldown_s ELSE FALSE

\* low_and_fatigued with a slip: "or" for "and"
LowAndFatigued_Or(fe, ga, baseline) ==
    (fe * 100 < LowThreshold(baseline)) \/ (ga >= FatigueGate)

\* low_and_fatigued
LowAndFatigued(fe, ga, baseline) ==
    (fe * 100 < LowThreshold(baseline)) /\ (ga >= FatigueGate)

\* the sustained-low counter with a slip: a good tick only takes one second
\* off (a leaky bucket)
CountLow_Leaky(ls, in_grace, in_cooldown, laf) ==
    IF ~in_grace /\ ~in_cooldown
    THEN (IF laf THEN ls + 1 ELSE Max(0, ls - 1))
    ELSE 0

\* the sustained-low counter with a slip: it keeps counting during cooldown
CountLow_InCooldown(ls, in_grace, in_cooldown, laf) ==
    IF ~in_grace
    THEN (IF laf THEN ls + 1 ELSE 0)
    ELSE 0

\* the sustained-low counter before the firing test: low_seconds + 1 or 0
\* outside grace and cooldown, 0 inside
CountLow(ls, in_grace, in_cooldown, laf) ==
    IF ~in_grace /\ ~in_cooldown
    THEN (IF laf THEN ls + 1 ELSE 0)
    ELSE 0

\* breaks_triggered with a slip: a fired break is not counted
BreaksAfter_NoCount(fire, bt) == bt

\* breaks_triggered after the firing test
BreaksAfter(fire, bt) == IF fire THEN bt + 1 ELSE bt

\* the policy condition as the specification states it, for the observers
PolicyCondition(fe, ga, baseline) ==
    fe * 100 < Max(settings.threshold_min * 100,
                   Min(settings.threshold_max * 100,
                       baseline * settings.threshold_multiplier))
    /\ ga >= settings.fatigue_gate

\* the zero test of update_metrics: the brain layer is gating
IsZeroSnapshot(m) ==
    m.focus = 0 /\ m.fatigue = 0 /\ m.heart_rate = 0 /\ m.spo2 = 0

\* State after SessionScreen.__init__
InitSession ==
    /\ baseline_focus \in Baselines
    /\ now = StartClock
    /\ start_ts = StartClock
    /\ focus_ema = baseline_focus
    /\ fatigue_ema = 25
    /\ low_seconds = 0
    /\ last_break_ts = 0
    /\ breaks_triggered = 0
    /\ signal_ok = TRUE
    /\ warmup_seen = 0
    /\ samples = 0
    /\ focus_sum = 0
    /\ hr_sum = 0
    /\ spo2_sum = 0
    /\ hr_samples = 0
    /\ spo2_samples = 0
    /\ popups = 0
    /\ fired = FALSE
    /\ cond_run = 0
    /\ steady = TRUE
    /\ spath = "init"
    /\ low_before = 0

\* _render_not_worn with a slip: the sustained-low counter is left standing
RenderNotWorn_KeepsLow(dt) ==
    /\ signal_ok' = FALSE
    /\ focus_ema' = 0
    /\ fatigue_ema' = 0
    /\ fired' = FALSE
    /\ steady' = (steady /\ dt = 1 /\ (now + dt) - start_ts < settings.grace_s)
    /\ UNCHANGED <<low_seconds, last_break_ts, breaks_triggered, warmup_seen, popups,
                   cond_run>>
    /\ UNCHANGED statVars

\* _render_not_worn: outputs forced to 0, break logic paused
RenderNotWorn(dt) ==
    /\ signal_ok' = FALSE
    /\ low_seconds' = 0
    /\ focus_ema' = 0
    /\ fatigue_ema' = 0
    /\ fired' = FALSE
    /\ steady' = (steady /\ dt = 1 /\ (now + dt) - start_ts < settings.grace_s)
    /\ UNCHANGED <<last_break_ts, breaks_triggered, warmup_seen, popups, cond_run>>
    /\ UNCHANGED statVars

\* update_metrics, dt seconds after the previous tick, with r the outcome of
\* brain.read_metrics()
UpdateMetrics(dt, r) ==
    LET t == now + dt
        elapsed == t - start_ts
        fe == Ema(settings.ema_alpha, focus_ema, r.m.focus)
        ga == Ema(settings.ema_alpha, fatigue_ema, r.m.fatigue)
        in_grace == InGrace(elapsed)
        in_cooldown == InCooldown(t, last_break_ts)
        low_and_fatigued == LowAndFatigued(fe, ga, baseline_focus)
        low1 == CountLow(low_seconds, in_grace, in_cooldown, low_and_fatigued)
        fire == ~in_grace /\ ~in_cooldown /\ low1 >= settings.low_required_s
        cond == PolicyCondition(fe, ga, baseline_focus)
    IN  /\ elapsed <= MaxTime
        /\ now' = t
        /\ low_before' = low_seconds
        /\ UNCHANGED <<baseline_focus, start_ts>>
        /\ CASE r.exc = "MuseNotReady" -> RenderNotWorn(dt) /\ spath' = "notready"
             [] r.exc = "Exception" ->
                  /\ spath' = "error"
                  /\ fired' = FALSE
                  /\ steady' = (steady /\ dt = 1 /\ elapsed < settings.grace_s)
                  /\ UNCHANGED <<focus_ema, fatigue_ema, low_seconds, last_break_ts,
                                 breaks_triggered, signal_ok, warmup_seen, popups, cond_run>>
                  /\ UNCHANGED statVars
             [] r.exc = "none" /\ IsZeroSnapshot(r.m) -> RenderNotWorn(dt) /\ spath' = "zero"
             [] r.exc = "none" /\ ~IsZeroSnapshot(r.m) /\ warmup_seen + 1 <= 2 ->
                  /\ spath' = "skip"
                  /\ signal_ok' = TRUE
                  /\ warmup_seen' = warmup_seen + 1
                  /\ fired' = FALSE
                  /\ steady' = (steady /\ dt = 1 /\ elapsed < settings.grace_s)
                  /\ UNCHANGED <<focus_ema, fatigue_ema, low_seconds, last_break_ts,
                                 breaks_triggered, popups, cond_run>>
                  /\ UNCHANGED statVars
             [] r.exc = "none" /\ ~IsZeroSnapshot(r.m) /\ warmup_seen + 1 > 2 ->
                  /\ spath' = "processed"
                  /\ signal_ok' = TRUE
                  /\ warmup_seen' = warmup_seen + 1
                  /\ samples' = samples + 1
                  /\ focus_sum' = focus_sum + r.m.focus
                  /\ hr_sum' = IF r.m.heart_rate # Unavailable
                               THEN hr_sum + r.m.heart_rate ELSE hr_sum
                  /\ hr_samples' = IF r.m.heart_rate # Unavailable
                                   THEN hr_samples + 1 ELSE hr_samples
                  /\ spo2_sum' = IF r.m.spo2 # Unavailable
                                 THEN spo2_sum + r.m.spo2 ELSE spo2_sum
                  /\ spo2_samples' = IF r.m.spo2 # Unavailable
                                     THEN spo2_samples + 1 ELSE spo2_samples
                  /\ focus_ema' = fe
                  /\ fatigue_ema' = ga
                  /\ low_seconds' = IF fire THEN 0 ELSE low1
                  /\ last_break_ts' = IF fire THEN t ELSE last_break_ts
                  /\ breaks_triggered' = BreaksAfter(fire, breaks_triggered)
                  /\ popups' = IF fire THEN popups + 1 ELSE popups
                  /\ fired' = fire
                  /\ cond_run' = IF cond THEN Min(cond_run + 1, settings.low_required_s)
                                          ELSE 0
                  /\ steady' = (steady /\ dt = 1
                                  /\ (elapsed < settings.grace_s \/ cond))

-----------------------------------------------------------------------------
(* SessionScreen._low_threshold as a function of the baseline and the settings *)

\* the baseline comes from calibration (0.25 .. 1.0); the three settings from
\* the spin boxes of the settings screen: multiplier 0.50 .. 0.90, min
\* 0.10 .. 0.60, max 0.20 .. 0.90, each chosen on its own
ThresholdInputs ==
    [baseline : {25, 60, 100}, multiplier : {50, 70, 90},
     tmin : {10, 25, 60}, tmax : {20, 60, 90}]

\* the AppSettings defaults with the baseline of the worked example
DefaultThresholdInput ==
    [baseline |-> 60, multiplier |-> 70, tmin |-> 25, tmax |-> 60]

ThresholdIdle == thr_in = DefaultThresholdInput /\ thr_out = -1

\* one call of _low_threshold
LowThresholdCall ==
    /\ thr_out' = LowThresholdOf(thr_in.baseline, thr_in.multiplier,
                                 thr_in.tmin, thr_in.tmax)
    /\ UNCHANGED thr_in

-----------------------------------------------------------------------------
(* MuseSensorQuality.read: the electrode scores of the pre-session check *)

good_ohms == 150              \* 150 000 Ohm, in kOhm
bad_ohms == 1200              \* 1 200 000 Ohm, in kOhm
min_std == 3
good_std == 14
too_high_std == 80
\* a score s in 0..1 is kept exactly, as s * ScoreDen
ScoreDen == 23100

\* the score of one resistance row with median ohms (kOhm; <= 0 also stands
\* for a median that is not finite)
ResistanceScore(ohms) ==
    IF ohms <= 0 THEN 0
    ELSE IF ohms <= good_ohms THEN ScoreDen
    ELSE IF ohms >= bad_ohms THEN 0
    ELSE Clip(ScoreDen - ((ohms - good_ohms) * ScoreDen) \div (bad_ohms - good_ohms),
              0, ScoreDen)

\* the score of one EEG channel with standard deviation sd
EegScore(sd) ==
    IF sd <= min_std THEN 0
    ELSE LET base == Clip(((sd - min_std) * ScoreDen) \div (good_std - min_std),
                          0, ScoreDen)
             t66 == Clip(sd - good_std, 0, too_high_std - good_std)
         IN  IF sd > good_std
             THEN Clip(base - (base * 6 * t66) \div (10 * (too_high_std - good_std)),
                       0, ScoreDen)
             ELSE base

\* the four scores (TP9, AF7, AF8, TP10); a name without a row scores 0
ResistanceScores(med) ==
    [i \in 1..4 |-> IF i > Len(med) THEN 0 ELSE ResistanceScore(med[i])]
EegScores(stds) ==
    [i \in 1..4 |-> IF i > Len(stds) THEN 0 ELSE EegScore(stds[i])]

SensorStatus(src, scores) == [exc |-> "none", src |-> src, scores |-> scores]
SensorRaised(e) == [exc |-> e, src |-> "none", scores |-> <<0, 0, 0, 0>>]

\* what BoardShim.get_resistance_channels reports on the first read: the
\* number of resistance channels (0 also when the call raises; 2: fewer
\* than the four electrodes)
ResistanceSupport == {0, 2, 4}

\* what board.get_current_board_data(16) gives the resistance path: it
\* raises BrainFlowError, it has no column, or it has rows of median kOhm
ResistanceReads ==
    { [kind |-> "BrainFlowError", rows |-> <<>>],
      [kind |-> "empty", rows |-> <<>>],
      [kind |-> "data", rows |-> <<100, 100, 100, 100>>],
      [kind |-> "data", rows |-> <<100, 675, 100, 100>>],
      [kind |-> "data", rows |-> <<100, 500, 2000, -1>>] }

\* what board.get_current_board_data(n) gives the EEG path: it raises
\* BrainFlowError, it is shorter than the window, or it is a full window with
\* these per-channel standard deviations
EegReads ==
    { [kind |-> "BrainFlowError", stds |-> <<>>],
      [kind |-> "short", stds |-> <<>>],
      [kind |-> "data", stds |-> <<0, 1, 300, 2>>],
      [kind |-> "data", stds |-> <<50, 40, 300, 45>>],
      [kind |-> "data", stds |-> <<10, 14, 47, 80>>],
      [kind |-> "data", stds |-> <<300, 300, 300, 10>>],
      [kind |-> "data", stds |-> <<10, 14, 10>>] }

\* State after MuseSensorQuality.__init__
InitQuality ==
    /\ sq_checked = FALSE
    /\ sq_channels = 0
    /\ sq_ret = SensorStatus("init", <<0, 0, 0, 0>>)
    /\ sq_call = "none"
    /\ sq_in = <<>>
    /\ start_btn = FALSE
    /\ dots = <<FALSE, FALSE, FALSE, FALSE>>

\* MuseSensorQuality.read(): the resistance path when the board has
\* resistance channels and the read gives data, else the EEG variance path
SensorRead(support, res, eeg) ==
    LET ch == IF sq_checked THEN sq_channels ELSE support
    IN  IF ~connected \/ ~board
        THEN /\ sq_ret' = SensorRaised("RuntimeError")
             /\ sq_call' = "disconnected"
             /\ sq_in' = <<>>
             /\ UNCHANGED <<sq_checked, sq_channels>>
        ELSE /\ sq_call' = "connected"
             /\ sq_checked' = TRUE
             /\ sq_channels' = ch
             /\ sq_ret' =
                   IF ch > 0 /\ res.kind = "data"
                   THEN SensorStatus("resistance", ResistanceScores(SubSeq(res.rows, 1, ch)))
                   ELSE IF eeg.kind = "BrainFlowError" THEN SensorRaised("BrainFlowError")
                   ELSE IF eeg.kind = "short" THEN SensorRaised("RuntimeError")
                   ELSE SensorStatus("eeg", EegScores(eeg.stds))
             /\ sq_in' =
                   IF ch > 0 /\ res.kind = "data" THEN SubSeq(res.rows, 1, ch)
                   ELSE IF eeg.kind = "data" THEN eeg.stds
                   ELSE <<>>

\* GREEN_THRESHOLD = 0.5, in units of 1/ScoreDen
GREEN_THRESHOLD == ScoreDen \div 2

\* the green test with a slip: a score of exactly 0.5 is red
IsGreen_Strict(v) == v > GREEN_THRESHOLD

\* "sensors[name] >= GREEN_THRESHOLD"
IsGreen(v) == v >= GREEN_THRESHOLD

\* PreSessionScreen._tick: one read of the sensor check, then the dots and
\* the Start-calibration button
PreSessionTick(support, res, eeg) ==
    /\ SensorRead(support, res, eeg)
    /\ IF sq_ret'.exc # "none"
       THEN /\ dots' = <<FALSE, FALSE, FALSE, FALSE>>
            /\ start_btn' = FALSE
       ELSE LET red == {i \in 1..4 : ~IsGreen(sq_ret'.scores[i])}
            IN  /\ dots' = [i \in 1..4 |-> IsGreen(sq_ret'.scores[i])]
                /\ start_btn' = (Cardinality(red) = 0)

-----------------------------------------------------------------------------
(* CalibrationScreen: the baseline run *)

\* self._warmup_samples_to_skip
warmup_samples_to_skip == 2
\* the fall-back baseline and the clamp of the baseline, in percent
baseline_fallback == 35
baseline_min == 25
baseline_max == 100

\* what brain.sample_focus() gives a tick: a focus in percent or an exception
CalFocus == {0, 20, 60, 100}
CalReads == {Raised("MuseNotReady"), Raised("Exception")}
              \cup {Returned(BrainMetrics(f, 0, 0, 0)) : f \in CalFocus}

\* sorted(self._samples), by insertion
RECURSIVE SortedSeq(_)
InsertSorted(x, t) ==
    LET k == Cardinality({i \in DOMAIN t : t[i] <= x})
    IN  SubSeq(t, 1, k) \o <<x>> \o SubSeq(t, k + 1, Len(t))
SortedSeq(s) ==
    IF s = <<>> THEN <<>> ELSE InsertSorted(Head(s), SortedSeq(Tail(s)))

\* idx = int(0.65 * len(samples)), clamped to the list (0-based)
PercentileIndex(n) == Max(0, Min(n - 1, (65 * n) \div 100))

\* the baseline with a slip: the list is indexed without sorting it
BaselineOf_Unsorted(s) ==
    IF s = <<>> THEN Clip(baseline_fallback, baseline_min, baseline_max)
    ELSE Clip(s[PercentileIndex(Len(s)) + 1], baseline_min, baseline_max)

\* the baseline _tick hands on: the 65th percentile, clamped to [0.25, 1.0]
BaselineOf(s) ==
    IF s = <<>> THEN Clip(baseline_fallback, baseline_min, baseline_max)
    ELSE Clip(SortedSeq(s)[PercentileIndex(Len(s)) + 1], baseline_min, baseline_max)

\* State after CalibrationScreen.__init__
InitCalibration ==
    /\ cal_running = FALSE
    /\ cal_elapsed = 0
    /\ cal_samples = <<>>
    /\ cal_warmup_seen = 0
    /\ cal_timer = FALSE
    /\ cal_done = <<>>
    /\ cal_last = "init"

\* start() (showEvent calls it each time the screen is shown)
CalStart ==
    IF cal_running
    THEN /\ cal_last' = "start_ignored"
         /\ UNCHANGED <<cal_running, cal_elapsed, cal_samples, cal_warmup_seen,
                        cal_timer, cal_done>>
    ELSE /\ Len(cal_done) < MaxRuns
         /\ cal_running' = TRUE
         /\ cal_elapsed' = 0
         /\ cal_samples' = <<>>
         /\ cal_warmup_seen' = 0
         /\ cal_timer' = TRUE
         /\ cal_last' = "start"
         /\ UNCHANGED cal_done

\* _stop_with_message
StopWithMessage ==
    /\ cal_running' = FALSE
    /\ cal_timer' = FALSE

\* _tick, fired by the 1 s timer, with r the outcome of brain.sample_focus()
CalTick(r) ==
    /\ cal_timer
    /\ IF r.exc # "none"
       THEN /\ StopWithMessage
            /\ cal_last' = "stopped"
            /\ UNCHANGED <<cal_elapsed, cal_samples, cal_warmup_seen, cal_done>>
       ELSE IF cal_warmup_seen + 1 <= warmup_samples_to_skip
       THEN /\ cal_warmup_seen' = cal_warmup_seen + 1
            /\ cal_last' = "skip"
            /\ UNCHANGED <<cal_running, cal_elapsed, cal_samples, cal_timer, cal_done>>
       ELSE LET samples1 == Append(cal_samples, Clip(r.m.focus, 0, 100))
                finished == cal_elapsed + 1 >= CalSeconds
            IN  /\ cal_warmup_seen' = cal_warmup_seen + 1
                /\ cal_elapsed' = cal_elapsed + 1
                /\ cal_samples' = samples1
                /\ cal_timer' = IF finished THEN FALSE ELSE cal_timer
                /\ cal_running' = IF finished THEN FALSE ELSE cal_running
                /\ cal_done' = IF finished THEN Append(cal_done, BaselineOf(samples1))
                                            ELSE cal_done
                /\ cal_last' = IF finished THEN "done" ELSE "accept"

-----------------------------------------------------------------------------
(* MainWindow: the connection watchdog, the one-shot reconnect worker and  *)
(* the disconnect modal.  The main thread runs one handler at a time; the  *)
(* worker thread runs beside it.  A read_metrics call of a screen timer is *)
(* two steps (its connected check, then the rest), so that what the worker *)
(* does in between is seen.                                                *)

\* self._last_sample_ts is None
NoTs == 0
\* the stale ticks after which the watchdog reconnects
stall_ticks == 10

\* what the watchdog reads: get_current_board_data(1) raises, gives no
\* column, or gives a sample with timestamp ts
WatchReads ==
    { [kind |-> "error", ts |-> 0], [kind |-> "none", ts |-> 0] }
        \cup { [kind |-> "sample", ts |-> t] : t \in 1..MaxTs }

\* the window and band powers the screen timers read in this part (headset
\* worn, engaged), and the PPG channels the board reports at start()
TickWindows == { <<50, 40, 300, 45>> }
TickBands == { [theta |-> 10, alpha |-> 20, beta |-> 40] }
TickPpg == {2}

\* the early returns of the watchdog with a slip: the attempt in flight is
\* not looked at
WatchBlocked_NoInflight == modal_open \/ reconnecting

\* the three early returns at the top of _watch_muse_connection
WatchBlocked == modal_open \/ reconnecting \/ inflight

\* the counting with a slip: a newer timestamp does not reset the counter
WatchCount_NoReset(last, stale, obs) ==
    IF obs.kind # "sample" THEN [last |-> last, stale |-> stale + 1, ret |-> FALSE]
    ELSE IF last = NoTs THEN [last |-> obs.ts, stale |-> 0, ret |-> TRUE]
    ELSE IF obs.ts <= last THEN [last |-> last, stale |-> stale + 1, ret |-> FALSE]
    ELSE [last |-> obs.ts, stale |-> stale, ret |-> FALSE]

\* the try block of _watch_muse_connection: the timestamp and the counter it
\* leaves, and whether it returned (the baseline sample)
WatchCount(last, stale, obs) ==
    IF obs.kind # "sample" THEN [last |-> last, stale |-> stale + 1, ret |-> FALSE]
    ELSE IF last = NoTs THEN [last |-> obs.ts, stale |-> 0, ret |-> TRUE]
    ELSE IF obs.ts <= last THEN [last |-> last, stale |-> stale + 1, ret |-> FALSE]
    ELSE [last |-> obs.ts, stale |-> 0, ret |-> FALSE]

\* State after MainWindow.__init__ with a saved device
InitWatchdog ==
    /\ modal_open = FALSE
    /\ reconnecting = FALSE
    /\ last_sample_ts = NoTs
    /\ stale_ticks = 0
    /\ inflight = FALSE
    /\ resume_widget = "none"
    /\ screen = "splash"
    /\ wpc = "none"
    /\ done_q = <<>>
    /\ retry_pending = FALSE
    /\ reading = FALSE
    /\ ticking = {}
    /\ stale_run = 0
    /\ wd_last = "init"
    /\ running = 0
    /\ emitted = 0
    /\ done_last = "none"
    /\ race = "none"

\* _watch_muse_connection, with _silent_auto_reconnect_once when it is called
WatchTick(obs) ==
    LET c == WatchCount(last_sample_ts, stale_ticks, obs)
        is_stale == obs.kind # "sample"
                      \/ (last_sample_ts # NoTs /\ obs.ts <= last_sample_ts)
        run0 == IF stale_run >= stall_ticks THEN 0 ELSE stale_run
    IN  /\ ~reading
        /\ IF WatchBlocked
           THEN /\ wd_last' = "skip"
                /\ UNCHANGED <<last_sample_ts, stale_ticks, inflight, resume_widget, wpc,
                               stale_run, running, emitted>>
           ELSE IF ~connected \/ ~board
           THEN /\ last_sample_ts' = NoTs
                /\ stale_ticks' = 0
                /\ wd_last' = "reset"
                /\ stale_run' = 0
                /\ UNCHANGED <<inflight, resume_widget, wpc, running, emitted>>
           ELSE IF c.ret
           THEN /\ last_sample_ts' = c.last
                /\ stale_ticks' = c.stale
                /\ wd_last' = "baseline"
                /\ stale_run' = 0
                /\ UNCHANGED <<inflight, resume_widget, wpc, running, emitted>>
           ELSE IF c.stale >= stall_ticks
           THEN /\ last_sample_ts' = NoTs
                /\ stale_ticks' = 0
                /\ inflight' = TRUE
                /\ resume_widget' = screen
                /\ wpc' = "stop"
                /\ running' = running + 1
                /\ emitted' = 0
                /\ wd_last' = "trigger"
                /\ stale_run' = IF is_stale THEN run0 + 1 ELSE 0
           ELSE /\ last_sample_ts' = c.last
                /\ stale_ticks' = c.stale
                /\ wd_last' = IF is_stale THEN "stale" ELSE "advance"
                /\ stale_run' = IF is_stale THEN run0 + 1 ELSE 0
                /\ UNCHANGED <<inflight, resume_widget, wpc, running, emitted>>
        /\ UNCHANGED <<brainVars, brainObs, modal_open, reconnecting, screen, done_q,
                       retry_pending, reading, ticking, done_last, race>>

\* _OneShotReconnectWorker.run up to the sleep: brain.stop() and
\* BoardShim.release_all_sessions()
WorkerStop ==
    /\ wpc = "stop"
    /\ Stop
    /\ wpc' = "sleep"
    /\ race' = IF reading THEN "overlap" ELSE "none"
    /\ UNCHANGED <<modal_open, reconnecting, last_sample_ts, stale_ticks, inflight,
                   resume_widget, screen, done_q, retry_pending, reading, ticking,
                   stale_run, wd_last, running, emitted, done_last>>

\* run after time.sleep(1.0): the thread calls brain.start() and is inside it
WorkerStartEnter ==
    /\ wpc = "sleep"
    /\ wpc' = "start"
    /\ UNCHANGED <<brainVars, brainObs, modal_open, reconnecting, last_sample_ts,
                   stale_ticks, inflight, resume_widget, screen, done_q, retry_pending,
                   reading, ticking, wdObs>>

\* the rest of run with a slip: when brain.start() raises, the thread ends
\* without emitting done
WorkerStart_SilentFailure(ok) ==
    /\ wpc = "start"
    /\ IF ok THEN \E ppg \in TickPpg : StartOk(ppg) ELSE StartFail
    /\ done_q' = IF ok THEN Append(done_q, ok) ELSE done_q
    /\ emitted' = IF ok THEN emitted + 1 ELSE emitted
    /\ running' = running - 1
    /\ wpc' = "none"
    /\ race' = IF reading THEN "overlap" ELSE "none"
    /\ UNCHANGED <<modal_open, reconnecting, last_sample_ts, stale_ticks, inflight,
                   resume_widget, screen, retry_pending, reading, ticking,
                   stale_run, wd_last, done_last>>

\* the rest of run: brain.start() returns and done(True) is emitted, or it
\* raises and done(False) is emitted; the thread ends
WorkerStart(ok) ==
    /\ wpc = "start"
    /\ IF ok THEN \E ppg \in TickPpg : StartOk(ppg) ELSE StartFail
    /\ done_q' = Append(done_q, ok)
    /\ emitted' = emitted + 1
    /\ running' = running - 1
    /\ wpc' = "none"
    /\ race' = IF reading THEN "overlap" ELSE "none"
    /\ UNCHANGED <<modal_open, reconnecting, last_sample_ts, stale_ticks, inflight,
                   resume_widget, screen, retry_pending, reading, ticking,
                   stale_run, wd_last, done_last>>

\* _on_auto_reconnect_done, delivered on the main thread; on failure it
\* calls _show_disconnect_modal, which stays in dlg.exec()
OnDone ==
    /\ ~reading
    /\ done_q # <<>>
    /\ LET ok == Head(done_q)
       IN  /\ done_q' = Tail(done_q)
           /\ inflight' = FALSE
           /\ done_last' = IF ok THEN "ok" ELSE "failed"
           /\ modal_open' = IF ok THEN modal_open ELSE TRUE
           /\ resume_widget' = IF ok THEN resume_widget ELSE screen
    /\ UNCHANGED <<brainVars, brainObs, reconnecting, last_sample_ts, stale_ticks,
                   screen, wpc, retry_pending, reading, ticking,
                   stale_run, wd_last, running, emitted, race>>

\* dlg.exec() returns with the user's choice: the rest of _show_disconnect_modal
ModalClose(result) ==
    /\ ~reading
    /\ modal_open
    /\ modal_open' = FALSE
    /\ CASE result = "retry" ->
              /\ retry_pending' = TRUE
              /\ UNCHANGED <<brainVars, brainObs, resume_widget, screen, race>>
         [] result = "change" ->
              /\ resume_widget' = "none"
              /\ Stop
              /\ screen' = "device_select"
              /\ race' = "none"
              /\ UNCHANGED retry_pending
         [] OTHER ->
              /\ resume_widget' = "none"
              /\ UNCHANGED <<brainVars, brainObs, retry_pending, screen, race>>
    /\ UNCHANGED <<reconnecting, last_sample_ts, stale_ticks, inflight, wpc, done_q,
                   reading, ticking, stale_run, wd_last, running, emitted, done_last>>

\* _ensure_muse: TRUE at once when connected, else brain.start() on the main
\* thread (ok: it succeeds); _reconnecting is True only inside the call
EnsureMuse(ok) ==
    /\ reconnecting' = FALSE
    /\ IF connected
       THEN UNCHANGED <<brainVars, brainObs, last_sample_ts, stale_ticks, race>>
       ELSE IF ok
       THEN /\ \E ppg \in TickPpg : StartOk(ppg)
            /\ last_sample_ts' = NoTs
            /\ stale_ticks' = 0
            /\ race' = "none"
       ELSE /\ StartFail
            /\ race' = "none"
            /\ UNCHANGED <<last_sample_ts, stale_ticks>>

\* what _ensure_muse returns
EnsureResult(ok) == connected \/ ok

\* do_retry, 900 ms after the modal's Retry
DoRetry(ok) ==
    /\ ~reading
    /\ retry_pending
    /\ retry_pending' = FALSE
    /\ EnsureMuse(ok)
    /\ screen' = IF EnsureResult(ok)
                 THEN IF resume_widget \notin {"none", "device_select", "settings"}
                      THEN resume_widget ELSE screen
                 ELSE "muse_blocker"
    /\ resume_widget' = "none"
    /\ UNCHANGED <<modal_open, inflight, wpc, done_q, reading, ticking,
                   stale_run, wd_last, running, emitted, done_last>>

\* go_presession, from the splash screen or the blocker's Retry button
GoPresession(ok) ==
    /\ ~reading
    /\ ~modal_open
    /\ screen \in {"splash", "muse_blocker"}
    /\ EnsureMuse(ok)
    /\ screen' = IF EnsureResult(ok) THEN "presession" ELSE "muse_blocker"
    /\ UNCHANGED <<modal_open, inflight, resume_widget, wpc, done_q, retry_pending,
                   reading, ticking, stale_run, wd_last, running, emitted, done_last>>

\* go_calibration, from the pre-session screen; showing the calibration
\* screen starts its timer
GoCalibration(ok) ==
    /\ ~reading
    /\ ~modal_open
    /\ screen = "presession"
    /\ EnsureMuse(ok)
    /\ screen' = IF EnsureResult(ok) THEN "calibration" ELSE "muse_blocker"
    /\ ticking' = IF EnsureResult(ok) THEN ticking \cup {"calibration"} ELSE ticking
    /\ UNCHANGED <<modal_open, inflight, resume_widget, wpc, done_q, retry_pending,
                   reading, stale_run, wd_last, running, emitted, done_last>>

\* go_session, called by the calibration when it is done (its timer has
\* stopped): a session screen left from before is deleted, the new one is
\* built and its timer started.  A calibration lasts 30 ticks of one second
\* and do_retry is due 900 ms after the modal closes, so no do_retry is
\* pending when the calibration is done.
GoSession ==
    /\ ~reading
    /\ ~retry_pending
    /\ "calibration" \in ticking
    /\ screen' = "session"
    /\ ticking' = {"session"}
    /\ UNCHANGED <<brainVars, brainObs, modal_open, reconnecting, last_sample_ts,
                   stale_ticks, inflight, resume_widget, wpc, done_q, retry_pending,
                   reading, wdObs>>

\* a timer tick whose read_metrics raises MuseNotReady: the session renders
\* not-worn and goes on, the calibration stops its timer
TickNotConnected ==
    /\ ~reading
    /\ ReadNotConnected
    /\ \E d \in ticking :
          ticking' = IF d = "calibration" THEN ticking \ {d} ELSE ticking
    /\ UNCHANGED <<modal_open, reconnecting, last_sample_ts, stale_ticks, inflight,
                   resume_widget, screen, wpc, done_q, retry_pending, reading, wdObs>>

\* a timer tick whose read_metrics passes the connected check (lines 301-304)
ReadEnter ==
    /\ ~reading
    /\ ticking # {}
    /\ connected /\ board
    /\ reading' = TRUE
    /\ last_reject_reason' = ""
    /\ UNCHANGED <<window_sec, connected, board, ppg_channels, focus_hist, fatigue_hist,
                   last_valid_eeg_count, last_worn, worn_hits, not_worn_hits,
                   warmup_reads_left, grace_reads_left, last_good, brainObs,
                   modal_open, reconnecting, last_sample_ts, stale_ticks, inflight,
                   resume_widget, screen, wpc, done_q, retry_pending, ticking, wdObs>>

\* the call in progress finds no window (also: the board is gone)
ReadFinishNotReady ==
    /\ reading
    /\ reading' = FALSE
    /\ ReadNotReadyBody
    /\ race' = IF race = "overlap" THEN "none" ELSE race
    /\ UNCHANGED <<modal_open, reconnecting, last_sample_ts, stale_ticks, inflight,
                   resume_widget, screen, wpc, done_q, retry_pending, ticking,
                   stale_run, wd_last, running, emitted, done_last>>

\* the call in progress got its window and runs to its end
ReadFinishWindow(stds, b) ==
    /\ reading
    /\ reading' = FALSE
    /\ ReadWindowBody(stds, b)
    /\ race' = IF race = "overlap" THEN "written" ELSE race
    /\ UNCHANGED <<modal_open, reconnecting, last_sample_ts, stale_ticks, inflight,
                   resume_widget, screen, wpc, done_q, retry_pending, ticking,
                   stale_run, wd_last, running, emitted, done_last>>

\* SessionScreen.end_session, from the End button: the session's timer is
\* stopped and on_end (go_summary) shows the summary
EndSession ==
    /\ ~reading
    /\ ~modal_open
    /\ screen = "session"
    /\ ticking' = ticking \ {"session"}
    /\ screen' = "summary"
    /\ UNCHANGED <<brainVars, brainObs, modal_open, reconnecting, last_sample_ts,
                   stale_ticks, inflight, resume_widget, wpc, done_q, retry_pending,
                   reading, wdObs>>

\* go_history, from the summary's Done button
GoHistory ==
    /\ ~reading
    /\ ~modal_open
    /\ screen = "summary"
    /\ screen' = "history"
    /\ UNCHANGED <<brainVars, brainObs, modal_open, reconnecting, last_sample_ts,
                   stale_ticks, inflight, resume_widget, wpc, done_q, retry_pending,
                   reading, ticking, wdObs>>

\* go_splash, from the history's Back and New-session buttons
GoSplash ==
    /\ ~reading
    /\ ~modal_open
    /\ screen = "history"
    /\ screen' = "splash"
    /\ UNCHANGED <<brainVars, brainObs, modal_open, reconnecting, last_sample_ts,
                   stale_ticks, inflight, resume_widget, wpc, done_q, retry_pending,
                   reading, ticking, wdObs>>

\* go_device_select and forget_device_and_reselect, from the title bar's
\* buttons, which are enabled on the splash screen only: brain.stop() on the
\* main thread, then the device screen
GoDeviceSelect ==
    /\ ~reading
    /\ ~modal_open
    /\ screen = "splash"
    /\ Stop
    /\ screen' = "device_select"
    /\ race' = "none"
    /\ UNCHANGED <<modal_open, reconnecting, last_sample_ts, stale_ticks, inflight,
                   resume_widget, wpc, done_q, retry_pending, reading, ticking,
                   stale_run, wd_last, running, emitted, done_last>>

\* on_device_selected, from the device screen's Connect: the device id is
\* stored and the splash screen shown; the brain is not started
OnDeviceSelected ==
    /\ ~reading
    /\ ~modal_open
    /\ screen = "device_select"
    /\ screen' = "splash"
    /\ UNCHANGED <<brainVars, brainObs, modal_open, reconnecting, last_sample_ts,
                   stale_ticks, inflight, resume_widget, wpc, done_q, retry_pending,
                   reading, ticking, wdObs>>

-----------------------------------------------------------------------------
(* Specifications *)

\* the brain on its own: the session is built and never ticks
BrainIdle ==
    /\ window_sec = 20 /\ connected = FALSE /\ board = FALSE /\ ppg_channels = 0
    /\ focus_hist = <<>> /\ fatigue_hist = <<>> /\ last_valid_eeg_count = 0
    /\ last_worn = FALSE /\ last_reject_reason = "" /\ worn_hits = 0
    /\ not_worn_hits = 0 /\ warmup_reads_left = 0 /\ grace_reads_left = 0
    /\ last_good = Zero /\ ret = Returned(Zero) /\ path = "init"
    /\ bad_run = -1 /\ nr_run = -1 /\ worn_run = 0 /\ nw_run = 0
    /\ lifecycle = "new"

SessionIdle == InitSession /\ baseline_focus = 60

\* everything outside the brain, when only the brain runs
nonBrain == <<sessionVars, sessionObs, thrVars, sqVars, wdVars, wdObs, calVars>>

InitB == InitBrain /\ SessionIdle /\ ThresholdIdle /\ InitQuality /\ InitCalibration /\ InitWatchdog

NextBrain ==
    \/ (\E ppg \in 0..2 : StartOk(ppg)) /\ UNCHANGED nonBrain
    \/ StartFail /\ UNCHANGED nonBrain
    \/ Stop /\ UNCHANGED nonBrain
    \/ ReadNotConnected /\ UNCHANGED nonBrain
    \/ ReadNotReady /\ UNCHANGED nonBrain
    \/ (\E stds \in EegWindows, b \in Bands : ReadWindow(stds, b))
          /\ UNCHANGED nonBrain

SpecBrain == InitB /\ [][NextBrain]_vars

\* the session on its own: read_metrics outcomes are drawn from SessionReads
SessionTick ==
    /\ \E dt \in 1..MaxDt, r \in SessionReads : UpdateMetrics(dt, r)
    /\ UNCHANGED <<brainVars, brainObs, thrVars, sqVars, wdVars, wdObs, calVars>>

NextSession ==
    \/ SessionTick

InitS == BrainIdle /\ InitSession /\ ThresholdIdle /\ InitQuality /\ InitCalibration /\ InitWatchdog

SpecSession == InitS /\ [][NextSession]_vars

\* _low_threshold on its own, over the baselines and the settings the
\* settings screen allows
InitT ==
    /\ BrainIdle /\ SessionIdle /\ InitQuality /\ InitCalibration /\ InitWatchdog
    /\ thr_in \in ThresholdInputs
    /\ thr_out = -1

NextThreshold ==
    \/ LowThresholdCall
          /\ UNCHANGED <<brainVars, brainObs, sessionVars, sessionObs, sqVars, wdVars, wdObs,
                         calVars>>

SpecThreshold == InitT /\ [][NextThreshold]_vars

\* the pre-session sensor check on a backend that is started, stopped and
\* polled while no window is ready
InitQ == BrainIdle /\ SessionIdle /\ ThresholdIdle /\ InitQuality /\ InitCalibration /\ InitWatchdog

NextQuality ==
    \/ (\E ppg \in 0..2 : StartOk(ppg))
          /\ UNCHANGED nonBrain
    \/ Stop /\ UNCHANGED nonBrain
    \/ ReadNotConnected /\ UNCHANGED nonBrain
    \/ ReadNotReady /\ UNCHANGED nonBrain
    \/ (\E support \in ResistanceSupport, res \in ResistanceReads, eeg \in EegReads :
            PreSessionTick(support, res, eeg))
          /\ UNCHANGED <<brainVars, brainObs, sessionVars, sessionObs, thrVars, wdVars, wdObs,
                         calVars>>

SpecQuality == InitQ /\ [][NextQuality]_vars

\* the main window with its watchdog, the reconnect worker and the timer of
\* the calibration or session screen, all on one brain
InitW == BrainIdle /\ SessionIdle /\ ThresholdIdle /\ InitQuality /\ InitCalibration /\ InitWatchdog

otherVars == <<sessionVars, sessionObs, thrVars, sqVars, calVars>>

NextWatchdog ==
    \/ (\E obs \in WatchReads : WatchTick(obs)) /\ UNCHANGED otherVars
    \/ WorkerStop /\ UNCHANGED otherVars
    \/ WorkerStartEnter /\ UNCHANGED otherVars
    \/ (\E ok \in BOOLEAN : WorkerStart(ok)) /\ UNCHANGED otherVars
    \/ OnDone /\ UNCHANGED otherVars
    \/ (\E result \in {"retry", "change", "close"} : ModalClose(result))
          /\ UNCHANGED otherVars
    \/ (\E ok \in BOOLEAN : DoRetry(ok)) /\ UNCHANGED otherVars
    \/ (\E ok \in BOOLEAN : GoPresession(ok)) /\ UNCHANGED otherVars
    \/ (\E ok \in BOOLEAN : GoCalibration(ok)) /\ UNCHANGED otherVars
    \/ GoSession /\ UNCHANGED otherVars
    \/ TickNotConnected /\ UNCHANGED otherVars
    \/ ReadEnter /\ UNCHANGED otherVars
    \/ ReadFinishNotReady /\ UNCHANGED otherVars
    \/ (\E stds \in TickWindows, b \in TickBands : ReadFinishWindow(stds, b))
          /\ UNCHANGED otherVars

SpecWatchdog == InitW /\ [][NextWatchdog]_vars

\* the same with the scheduling the code relies on: the worker thread runs
\* on (stop() and start() return, start() within its timeout), a read_metrics
\* call returns, and the event loop delivers a queued done signal
SpecWatchdogLive ==
    /\ SpecWatchdog
    /\ WF_vars(WorkerStop /\ UNCHANGED otherVars)
    /\ WF_vars(WorkerStartEnter /\ UNCHANGED otherVars)
    /\ WF_vars((\E ok \in BOOLEAN : WorkerStart(ok)) /\ UNCHANGED otherVars)
    /\ WF_vars((ReadFinishNotReady
                  \/ \E stds \in TickWindows, b \in TickBands : ReadFinishWindow(stds, b))
               /\ UNCHANGED otherVars)
    /\ SF_vars(OnDone /\ UNCHANGED otherVars)

\* the main window with the user's navigation as well: ending a session,
\* going back to the splash screen and choosing a device
NextApp ==
    \/ (\E obs \in WatchReads : WatchTick(obs)) /\ UNCHANGED otherVars
    \/ WorkerStop /\ UNCHANGED otherVars
    \/ WorkerStartEnter /\ UNCHANGED otherVars
    \/ (\E ok \in BOOLEAN : WorkerStart(ok)) /\ UNCHANGED otherVars
    \/ OnDone /\ UNCHANGED otherVars
    \/ (\E result \in {"retry", "change", "close"} : ModalClose(result))
          /\ UNCHANGED otherVars
    \/ (\E ok \in BOOLEAN : DoRetry(ok)) /\ UNCHANGED otherVars
    \/ (\E ok \in BOOLEAN : GoPresession(ok)) /\ UNCHANGED otherVars
    \/ (\E ok \in BOOLEAN : GoCalibration(ok)) /\ UNCHANGED otherVars
    \/ GoSession /\ UNCHANGED otherVars
    \/ EndSession /\ UNCHANGED otherVars
    \/ GoHistory /\ UNCHANGED otherVars
    \/ GoSplash /\ UNCHANGED otherVars
    \/ GoDeviceSelect /\ UNCHANGED otherVars
    \/ OnDeviceSelected /\ UNCHANGED otherVars
    \/ TickNotConnected /\ UNCHANGED otherVars
    \/ ReadEnter /\ UNCHANGED otherVars
    \/ ReadFinishNotReady /\ UNCHANGED otherVars
    \/ (\E stds \in TickWindows, b \in TickBands : ReadFinishWindow(stds, b))
          /\ UNCHANGED otherVars

InitA == BrainIdle /\ SessionIdle /\ ThresholdIdle /\ InitQuality /\ InitCalibration /\ InitWatchdog

SpecApp == InitA /\ [][NextApp]_vars

Spec == SpecBrain

-----------------------------------------------------------------------------
(* Properties of BrainFlowMuseBrain.read_metrics *)

\* the branches a read_metrics call that found the backend connected ends in
ReadPaths == {"notready", "notworn", "noise", "warmup", "fresh"}

\* C1 (as stated): after a fresh snapshot, on the H-th consecutive tick that
\* is not ready or tracked NOT_WORN (H = HoldReads) and on every further such
\* tick, read_metrics returns the zero snapshot.
C1_HoldExpires ==
    bad_run >= HoldReads(window_sec) => ret = Returned(Zero)

\* C2 (as stated): on each of the first H-1 consecutive not-ready ticks after
\* a fresh snapshot, read_metrics returns exactly that snapshot.
C2_ReplayDuringHold ==
    (nr_run >= 1 /\ nr_run <= HoldReads(window_sec) - 1) => ret = Returned(last_good)

\* C3 (as stated): the tick right after a fresh snapshot never returns the
\* zero snapshot, whether it is not ready, noise-rejected or not worn.
C3_NoZeroOnSingleBadTick ==
    [][(path = "fresh" /\ path' \in {"notready", "notworn", "noise"})
           => ret'.m # Zero]_vars

\* C4: while the tracked state is NOT_WORN, it flips to WORN exactly on the
\* 3rd consecutive worn instant reading: a flip happens only when the run of
\* worn readings is 3, no tick leaves the state NOT_WORN with a run of 3, and
\* a not-worn reading restarts the run.
C4_DebounceToWorn ==
    [][path' \in ReadPaths =>
          /\ (~last_worn /\ last_worn') => worn_run' = debounce_needed
          /\ ~last_worn' => worn_run' < debounce_needed]_vars

\* C4 witness: the tick of the 3rd consecutive worn reading has just flipped
\* the tracked state to WORN.
C4_Witness ==
    /\ last_worn
    /\ worn_run = debounce_needed
    /\ worn_hits = debounce_needed
    /\ path = "warmup"
    /\ warmup_reads_left = warmup_reads_needed - 1

\* C5 (as stated): read_metrics flips the tracked state from WORN to NOT_WORN
\* only on a tick that is at least the 3rd consecutive tick with a not-worn
\* instant reading.
C5_DebounceToNotWorn ==
    [][(path' \in ReadPaths /\ last_worn /\ ~last_worn')
           => nw_run' >= debounce_needed]_vars

\* C6 (as stated): every flip and every successful start() set the warm-up
\* countdown; a read_metrics call that finds it non-zero returns the zero
\* snapshot, appends nothing to the histories and leaves last-good alone.
C6_WarmupEmitsZero ==
    [][/\ (path' \in ReadPaths /\ last_worn' # last_worn)
             => warmup_reads_left' \in {warmup_reads_needed, warmup_reads_needed - 1}
       /\ path' = "start" => warmup_reads_left' = warmup_reads_needed
       /\ (path' \in ReadPaths /\ warmup_reads_left > 0)
             => /\ ret' = Returned(Zero)
                /\ focus_hist' \in {focus_hist, <<>>}
                /\ fatigue_hist' \in {fatigue_hist, <<>>}
                /\ last_good' = last_good]_vars

\* C6 (amended): every flip and every successful start() set the warm-up
\* countdown to 4 (3 when the flipping tick itself consumes one); a
\* read_metrics call that finds the countdown non-zero never reports a fresh
\* snapshot: it returns the zero snapshot or, through the grace hold, the
\* unchanged last-good snapshot, appends nothing to the histories and leaves
\* last-good alone; a tick suppressed by warm-up returns the zero snapshot;
\* a fresh snapshot is reported only with the countdown at 0.
C6_WarmupSuppression ==
    [][/\ (path' \in ReadPaths /\ last_worn' # last_worn)
             => warmup_reads_left' =
                   IF path' = "warmup" THEN warmup_reads_needed - 1
                                       ELSE warmup_reads_needed
       /\ path' = "start" => warmup_reads_left' = warmup_reads_needed
       /\ (path' \in ReadPaths /\ warmup_reads_left > 0)
             => /\ path' # "fresh"
                /\ ret' \in {Returned(Zero), Returned(last_good)}
                /\ focus_hist' \in {focus_hist, <<>>}
                /\ fatigue_hist' \in {fatigue_hist, <<>>}
                /\ last_good' = last_good
       /\ path' = "warmup"
             => /\ ret' = Returned(Zero)
                /\ last_worn' /\ ~last_worn => warmup_reads_left' = warmup_reads_needed - 1
                /\ last_worn' = last_worn => warmup_reads_left' = warmup_reads_left - 1
       /\ path' = "fresh" => warmup_reads_left = 0 /\ warmup_reads_left' = 0]_vars

\* C6 witness: the last tick of a warm-up that follows a re-flip to WORN: the
\* zero snapshot is returned although a last-good snapshot exists.
C6_Witness ==
    /\ path = "warmup"
    /\ warmup_reads_left = 0
    /\ ret = Returned(Zero)
    /\ last_good # Zero
    /\ focus_hist = <<>>

-----------------------------------------------------------------------------
(* Properties of SessionScreen.update_metrics *)

Elapsed == now - start_ts

\* C7: no break fires on a tick whose elapsed session time is below grace_s:
\* such a tick calls no show_break_popup and leaves breaks_triggered alone,
\* whatever focus and fatigue it reads.
C7_NoBreakInGrace ==
    [][(now' - start_ts' < settings.grace_s)
           => (~fired' /\ breaks_triggered' = breaks_triggered /\ popups' = popups)]_vars

\* C7 witness: still inside the grace period, the policy condition has held
\* on low_required_s processed ticks in a row, and no break has fired.
C7_Witness ==
    /\ Elapsed < settings.grace_s
    /\ cond_run >= settings.low_required_s
    /\ focus_ema * 100 < LowThreshold(baseline_focus)
    /\ fatigue_ema >= FatigueGate
    /\ breaks_triggered = 0
    /\ popups = 0

\* C8 (as stated): with one tick per second and the policy condition true on
\* every tick from elapsed = grace_s on, no break fires before elapsed =
\* grace_s + low_required_s and exactly one has fired from then on (until the
\* cooldown ends), at elapsed = grace_s + low_required_s.
C8_FiresAtGracePlusRequired ==
    LET T == settings.grace_s + settings.low_required_s
    IN  steady =>
          /\ Elapsed < T => breaks_triggered = 0
          /\ (Elapsed >= T /\ Elapsed < T + settings.cooldown_s)
                => (breaks_triggered = 1 /\ last_break_ts = start_ts + T)

\* C8 (amended): with one tick per second and the policy condition true on
\* every tick from elapsed = grace_s on, no break fires before elapsed =
\* grace_s + low_required_s - 1, and exactly one break has fired from then on
\* until the cooldown ends, at elapsed = grace_s + low_required_s - 1 (the
\* low_required_s-th tick outside the grace period).
C8_FiresAtGracePlusRequiredMinusOne ==
    LET T == settings.grace_s + settings.low_required_s - 1
    IN  steady =>
          /\ Elapsed < T => (breaks_triggered = 0 /\ popups = 0)
          /\ Elapsed = T => fired
          /\ (Elapsed >= T /\ Elapsed < T + Max(settings.cooldown_s, 1))
                => /\ breaks_triggered = 1
                   /\ popups = 1
                   /\ last_break_ts = start_ts + T

\* C8 witness: the steady run has just fired its break, one second before
\* grace_s + low_required_s.
C8_Witness ==
    /\ steady
    /\ fired
    /\ breaks_triggered = 1
    /\ Elapsed = settings.grace_s + settings.low_required_s - 1

\* C9: a break never fires less than cooldown_s after the previous one.
C9_NoBreakInCooldown ==
    [][(fired' \/ breaks_triggered' # breaks_triggered \/ popups' # popups)
           => (last_break_ts = 0 \/ now' - last_break_ts >= settings.cooldown_s)]_vars

\* C9 witness: the last tick of a cooldown: a break fired cooldown_s - 1
\* seconds ago, the policy condition has held on every processed tick since,
\* and no second break has fired.
C9_Witness ==
    /\ breaks_triggered = 1
    /\ popups = 1
    /\ ~fired
    /\ now - last_break_ts = settings.cooldown_s - 1
    /\ cond_run >= settings.low_required_s
    /\ low_seconds = 0

\* C10: a tick fires a break only if the policy condition (focus_ema below
\* the low threshold and fatigue_ema at or above the gate) holds on it and
\* held on the low_required_s - 1 processed ticks before it.
C10_BreakNeedsBothSustained ==
    fired =>
        /\ cond_run >= settings.low_required_s
        /\ focus_ema * 100 < Max(settings.threshold_min * 100,
                                 Min(settings.threshold_max * 100,
                                     baseline_focus * settings.threshold_multiplier))
        /\ fatigue_ema >= settings.fatigue_gate

\* C10 witness: a second break has just fired, after a stretch of low focus
\* below the fatigue gate that fired nothing.
C10_Witness ==
    /\ fired
    /\ breaks_triggered = 2
    /\ cond_run >= settings.low_required_s


\* C11: outside grace and cooldown, a processed tick on which the policy
\* condition is false sets low_seconds to 0, whatever it was before.
C11_GoodTickResets ==
    [][(/\ spath' = "processed"
        /\ ~(now' - start_ts < settings.grace_s)
        /\ ~(last_break_ts > 0 /\ now' - last_break_ts < settings.cooldown_s)
        /\ ~PolicyCondition(focus_ema', fatigue_ema', baseline_focus))
           => low_seconds' = 0]_vars

\* C11 witness: outside grace and cooldown, a processed tick with the
\* condition false has just thrown away a counter that stood above 0.
C11_Witness ==
    /\ spath = "processed"
    /\ low_before = settings.low_required_s - 1
    /\ low_before > 0
    /\ low_seconds = 0
    /\ ~fired
    /\ ~PolicyCondition(focus_ema, fatigue_ema, baseline_focus)
    /\ Elapsed >= settings.grace_s
    /\ ~(last_break_ts > 0 /\ now - last_break_ts < settings.cooldown_s)

\* C12: after every processed tick that falls in the grace period or in
\* cooldown low_seconds is 0, and in every state 0 <= low_seconds <
\* low_required_s.
C12_CounterHeldAtZero ==
    /\ [](low_seconds >= 0 /\ low_seconds < settings.low_required_s)
    /\ [][(/\ spath' = "processed"
            /\ \/ now' - start_ts < settings.grace_s
               \/ (last_break_ts > 0 /\ now' - last_break_ts < settings.cooldown_s))
               => low_seconds' = 0]_vars

\* C12 witness: a processed tick inside the cooldown, with the policy
\* condition true on it, has left the counter at 0.
C12_Witness ==
    /\ spath = "processed"
    /\ last_break_ts > 0
    /\ now - last_break_ts > 0
    /\ now - last_break_ts < settings.cooldown_s
    /\ PolicyCondition(focus_ema, fatigue_ema, baseline_focus)
    /\ low_seconds = 0
    /\ breaks_triggered = popups

\* C13: the counter reaches low_required_s exactly on the ticks that fire;
\* such a tick emits one break event, resets low_seconds, sets last_break_ts
\* to the current time and adds 1 to breaks_triggered; no other tick changes
\* any of the three; breaks_triggered equals the number of break events
\* emitted and never decreases.
C13_FiringEffects ==
    /\ [](breaks_triggered = popups)
    /\ [][LET reaches ==
                 /\ spath' = "processed"
                 /\ ~(now' - start_ts < settings.grace_s)
                 /\ ~(last_break_ts > 0 /\ now' - last_break_ts < settings.cooldown_s)
                 /\ PolicyCondition(focus_ema', fatigue_ema', baseline_focus)
                 /\ low_seconds + 1 >= settings.low_required_s
           IN  /\ fired' <=> reaches
               /\ reaches => /\ popups' = popups + 1
                              /\ low_seconds' = 0
                              /\ last_break_ts' = now'
                              /\ breaks_triggered' = breaks_triggered + 1
               /\ ~reaches => /\ popups' = popups
                               /\ last_break_ts' = last_break_ts
                               /\ breaks_triggered' = breaks_triggered
               /\ breaks_triggered' >= breaks_triggered]_vars

\* C13 witness: a tick has just fired the second break of the session.
C13_Witness ==
    /\ fired
    /\ spath = "processed"
    /\ low_before = settings.low_required_s - 1
    /\ low_seconds = 0
    /\ last_break_ts = now
    /\ breaks_triggered = 2
    /\ popups = 2

-----------------------------------------------------------------------------
(* Properties of the scoring, the noise gate, the vitals and the reset *)

\* C14 (as stated): _low_threshold returns max(threshold_min,
\* min(threshold_max, baseline * multiplier)), and for every baseline and
\* every combination of settings the settings screen allows the result lies
\* in [threshold_min, threshold_max]; for 0.60, 0.70, 0.25, 0.60 it is 0.42.
C14_ThresholdWithinBounds ==
    thr_out # -1 =>
        /\ thr_out >= thr_in.tmin * 100
        /\ thr_out <= thr_in.tmax * 100
        /\ thr_in = DefaultThresholdInput => thr_out = 4200

\* C15: for all band powers >= 0 that sum to at most 1 (beta = 1 included)
\* _focus_from_bands and _fatigue_from_bands lie in [0,1], and so do the
\* focus and fatigue of every snapshot read_metrics returns or keeps and
\* every entry of the two histories.
C15_BoundedScores ==
    /\ \A b \in BandGrid :
          /\ FocusFromBands(b) >= 0 /\ FocusFromBands(b) <= FocusDen
          /\ FatigueFromBands(b) >= 0 /\ FatigueFromBands(b) <= FatigueDen
    /\ \A m \in {ret.m, last_good} :
          /\ m.focus >= 0 /\ m.focus <= FocusDen * MeanDen
          /\ m.fatigue >= 0 /\ m.fatigue <= FatigueDen * MeanDen
    /\ \A i \in DOMAIN focus_hist : focus_hist[i] >= 0 /\ focus_hist[i] <= FocusDen
    /\ \A i \in DOMAIN fatigue_hist : fatigue_hist[i] >= 0 /\ fatigue_hist[i] <= FatigueDen

\* C15 witness: a fresh snapshot over a full history whose raw focus is above
\* 1 and whose raw fatigue is below 0: focus 1.0 and fatigue 0.0 are returned.
C15_Witness ==
    /\ path = "fresh"
    /\ Len(focus_hist) = smooth_n
    /\ ret.m.focus = FocusDen * MeanDen
    /\ ret.m.fatigue = 0

\* C16 (as stated): a noise-rejected tick appends nothing to the histories,
\* and when the tick before it returned a fresh snapshot it returns that
\* same snapshot.
C16_NoiseRejectKeepsSnapshot ==
    [][path' = "noise" =>
          /\ focus_hist' \in {focus_hist, <<>>}
          /\ fatigue_hist' \in {fatigue_hist, <<>>}
          /\ path = "fresh" => ret' = ret]_vars

\* C17 (as stated): a snapshot whose vitals could not be computed (here: the
\* board has no PPG channel) reports heart_rate and spo2 as absent, not as 0.
C17_VitalsAbsentWhenUnavailable ==
    (path = "fresh" /\ ppg_channels = 0)
        => (ret.m.heart_rate = Unavailable /\ ret.m.spo2 = Unavailable)

\* C18: in every snapshot read_metrics returns or keeps, heart_rate is 0 or
\* within [35, 200], spo2 is 0 or within [70, 100], and spo2 is non-zero only
\* with a non-zero heart_rate and both PPG channels.
C18_VitalsRanges ==
    \A m \in {ret.m, last_good} :
        /\ m.heart_rate = 0 \/ (m.heart_rate >= 35 /\ m.heart_rate <= 200)
        /\ m.spo2 = 0 \/ (m.spo2 >= 70 /\ m.spo2 <= 100)
        /\ m.spo2 # 0 => (m.heart_rate # 0 /\ ppg_channels > 1)

\* C18 witness: a fresh snapshot from both PPG channels with an accepted
\* heart rate and a rejected oxygen level.
C18_Witness ==
    /\ path = "fresh"
    /\ ppg_channels = 2
    /\ ret.m.heart_rate = 72
    /\ ret.m.spo2 = 0

\* C19 (as stated): while the backend is connected, a missing or short
\* window raises neither from read_metrics nor from MuseSensorQuality.read.
C19_TransientNeverRaises ==
    /\ path = "notready" => ret.exc = "none"
    /\ sq_call = "connected" => sq_ret.exc = "none"

\* C20: a successful start() leaves the backend connected with all smoothing
\* state as after construction and the warm-up countdown at 4, whatever
\* happened before it, so what read_metrics returns from then on is a
\* function of the ticks after the start alone.
C20_RestartResets ==
    [][path' = "start" =>
          /\ connected' /\ board'
          /\ focus_hist' = <<>> /\ fatigue_hist' = <<>>
          /\ worn_hits' = 0 /\ not_worn_hits' = 0
          /\ last_worn' = FALSE
          /\ last_valid_eeg_count' = 0
          /\ last_reject_reason' = ""
          /\ grace_reads_left' = 0
          /\ last_good' = Zero
          /\ warmup_reads_left' = warmup_reads_needed]_vars

\* C20 witness: start() has just succeeded after a stop() that followed a
\* fresh snapshot.
C20_Witness ==
    /\ lifecycle = "restarted"
    /\ path = "start"
    /\ connected
    /\ last_good = Zero
    /\ warmup_reads_left = warmup_reads_needed

\* C22: a tick that returns a freshly computed snapshot leaves the grace
\* countdown at 0 and that snapshot as the last good one; the last-good
\* snapshot changes on no other tick (a stop or start clears it), and a tick
\* that goes to the grace hold returns the last-good snapshot or the zero
\* snapshot, so a replay is always the most recent accepted snapshot.
C22_RefreshLastGood ==
    [][/\ path' = "fresh" =>
              /\ grace_reads_left' = 0
              /\ last_good' = ret'.m
       /\ last_good' # last_good =>
              \/ path' = "fresh"
              \/ path' \in {"start", "stop", "start_failed"} /\ last_good' = Zero
       /\ path' \in {"notready", "notworn", "noise"} =>
              ret'.m \in {last_good', Zero}]_vars

\* C22 witness: two fresh snapshots were accepted in a row, the second one
\* different from the first, and the not-ready tick after them replayed the
\* second.
C22_Witness ==
    /\ path = "notready"
    /\ Len(focus_hist) = 2
    /\ focus_hist[1] # focus_hist[2]
    /\ ret.m = last_good
    /\ ret.m.focus = Mean(focus_hist)
    /\ ret.m.focus # focus_hist[1] * MeanDen

C27_FailedStartClean ==
    [][/\ path' = "start_failed" =>
              /\ ret'.exc = "MuseNotReady"
              /\ ~connected' /\ ~board'
              /\ focus_hist' = <<>> /\ fatigue_hist' = <<>>
              /\ last_valid_eeg_count' = 0
              /\ last_worn' = FALSE
              /\ last_reject_reason' = ""
              /\ worn_hits' = 0 /\ not_worn_hits' = 0
              /\ warmup_reads_left' = 0
              /\ grace_reads_left' = 0
              /\ last_good' = Zero
       /\ ((~connected \/ ~board) /\ path' \in ReadPaths \cup {"raise"}) =>
              /\ path' = "raise"
              /\ ret'.exc = "MuseNotReady"
              /\ brainVars' = brainVars]_vars

\* C27 witness: a start() has just failed on a backend that had returned
\* fresh snapshots, and nothing of them is left.
C27_Witness ==
    /\ path = "start_failed"
    /\ lifecycle = "stopped"
    /\ ret.exc = "MuseNotReady"
    /\ ~connected /\ ~board
    /\ last_good = Zero

-----------------------------------------------------------------------------
(* Properties of MuseSensorQuality.read *)

\* C23 (as stated): when at least 3 of the 4 EEG channels have a standard
\* deviation above the largest bound of the check (too_high_std), read()
\* reports score 0 for all four electrodes.
C23_GlobalNoiseOverride ==
    (/\ sq_ret.exc = "none" /\ sq_ret.src = "eeg"
     /\ Len(sq_in) = 4
     /\ Cardinality({i \in 1..4 : sq_in[i] > too_high_std}) >= 3)
        => sq_ret.scores = <<0, 0, 0, 0>>

\* C24 (as stated): on the EEG path every electrode score is exactly 0 or 1:
\* 0 for a deviation at or below min_std or above too_high_std, 1 for a
\* deviation in between.
C24_BinaryScores ==
    (sq_ret.exc = "none" /\ sq_ret.src = "eeg") =>
        \A i \in 1..Len(sq_in) :
            /\ sq_ret.scores[i] \in {0, ScoreDen}
            /\ (sq_in[i] <= min_std \/ sq_in[i] > too_high_std) => sq_ret.scores[i] = 0
            /\ (sq_in[i] > min_std /\ sq_in[i] <= too_high_std)
                   => sq_ret.scores[i] = ScoreDen

\* C25 (as stated): when the rows read() scores (EEG rows or resistance rows)
\* are fewer than 4, read() reports score 0 for all four electrodes.
C25_FailClosedOnMissingChannels ==
    (sq_ret.exc = "none" /\ sq_ret.src \in {"eeg", "resistance"} /\ Len(sq_in) < 4)
        => sq_ret.scores = <<0, 0, 0, 0>>

-----------------------------------------------------------------------------
(* Properties of the watchdog and the automatic reconnect *)

\* C21 (as stated): the worker's stop() / start() never runs while a
\* read_metrics call of a screen timer is in progress on the main thread, and
\* no such call writes its result into state the worker has reset.
C21_SingleWriter ==
    race = "none"

\* C28: the watchdog starts a reconnect exactly when 10 evaluated ticks in a
\* row saw no newer sample (no sample, a read error, a timestamp not above
\* the recorded one); its counter is the length of that run; a tick that
\* sees a newer timestamp, and the baseline tick, leave the counter at 0; and
\* every (re)connect leaves no recorded timestamp, so that the first sample
\* after it is the baseline.
C28_StallThreshold ==
    /\ [](/\ wd_last = "trigger" => stale_run = stall_ticks
          /\ stale_run <= stall_ticks
          /\ stale_ticks < stall_ticks
          /\ stale_run < stall_ticks => stale_ticks = stale_run
          /\ wd_last = "advance" => (stale_ticks = 0 /\ last_sample_ts # NoTs)
          /\ wd_last = "baseline" =>
                 (stale_ticks = 0 /\ stale_run = 0 /\ last_sample_ts # NoTs))
    /\ [][/\ (stale_run' = stall_ticks /\ stale_run # stall_ticks) =>
                 (wd_last' = "trigger" /\ ~inflight /\ inflight' /\ wpc' = "stop")
          /\ (~inflight /\ inflight') => stale_run' = stall_ticks
          /\ (~connected /\ connected') =>
                 (last_sample_ts' = NoTs /\ stale_ticks' = 0)]_vars

\* C28 witness: the tenth stale tick in a row has just started the reconnect.
C28_Witness ==
    /\ wd_last = "trigger"
    /\ stale_run = stall_ticks
    /\ stale_ticks = 0
    /\ last_sample_ts = NoTs
    /\ inflight
    /\ wpc = "stop"

\* C29: while an attempt is in flight, the modal is open or a manual
\* reconnect runs, a watchdog tick changes nothing and no worker is started;
\* never more than one worker thread runs; a stall starts one worker, and the
\* modal opens only on the failure of that one attempt.
C29_OneAttemptAtATime ==
    /\ [](/\ running <= 1
          /\ running = (IF wpc = "none" THEN 0 ELSE 1)
          /\ wpc # "none" => inflight)
    /\ [][/\ (modal_open \/ reconnecting \/ inflight) =>
                 /\ wd_last' \in {wd_last, "skip"}
                 /\ wd_last' # wd_last => UNCHANGED <<brainVars, wdVars>>
                 /\ running' <= running
                 /\ stale_ticks' = stale_ticks \/ (~connected /\ connected')
          /\ (~inflight /\ inflight') => (running = 0 /\ running' = 1)
          /\ running' > running => (~inflight /\ inflight')
          /\ (~modal_open /\ modal_open') =>
                 (inflight /\ ~inflight' /\ done_last' = "failed"
                  /\ running = 0 /\ emitted = 1)]_vars

\* C29 witness: a watchdog tick has just returned at once because an attempt
\* is in flight, and the one worker is running.
C29_Witness ==
    /\ wd_last = "skip"
    /\ inflight
    /\ wpc = "sleep"
    /\ running = 1

\* C30: an attempt emits done exactly once, when its thread ends; the
\* handler of done clears _auto_reconnect_inflight and either finds the
\* backend connected and leaves the screen alone (done(True)) or opens the
\* modal (done(False)); _reconnecting is never left set; and every attempt
\* in flight is eventually over.
C30_AttemptCompletes ==
    /\ [](/\ emitted <= 1
          /\ Len(done_q) <= 1
          /\ inflight => (wpc # "none") # (done_q # <<>>)
          /\ (inflight /\ wpc = "none") => emitted = 1
          /\ (inflight /\ wpc # "none") => emitted = 0
          /\ ~reconnecting)
    /\ [][(inflight /\ ~inflight') =>
              /\ done_q # <<>> /\ done_q' = <<>>
              /\ done_last' = (IF Head(done_q) THEN "ok" ELSE "failed")
              /\ Head(done_q) =>
                     (connected' /\ board' /\ screen' = screen /\ modal_open' = modal_open)
              /\ ~Head(done_q) => modal_open']_vars
    /\ (inflight ~> ~inflight)

\* C30 witness: an attempt started on the session screen has succeeded and
\* its done(True) has been handled: connected, same screen, no modal.
C30_Witness ==
    /\ done_last = "ok"
    /\ wd_last = "trigger"
    /\ stale_run = stall_ticks
    /\ ~inflight
    /\ wpc = "none" /\ done_q = <<>>
    /\ emitted = 1
    /\ connected
    /\ screen = "session" /\ ticking = {"session"}
    /\ ~modal_open

-----------------------------------------------------------------------------
(* C34: a read_metrics tick that finds no window or too few samples changes
   none of last_worn, the worn and not-worn hit counters, the warm-up
   countdown, the two histories and the last-good snapshot (nor the valid
   channel count or the connection); of the fields of the worn state machine
   only the grace-hold countdown may move, and it moves as _grace_return
   says.  So the tick neither resets nor feeds a run of debounce hits and
   uses up no warm-up read. *)
C34_NotReadyFrame ==
    [][path' = "notready" =>
          /\ UNCHANGED <<last_worn, worn_hits, not_worn_hits, warmup_reads_left,
                         focus_hist, fatigue_hist, last_good>>
          /\ UNCHANGED <<last_valid_eeg_count, connected, board, ppg_channels,
                         window_sec, worn_run, nw_run>>
          /\ grace_reads_left' =
                 GraceReturn(grace_reads_left, last_good, window_sec).left]_vars

\* a not-ready tick in the middle of a run of worn readings, with warm-up
\* reads still owed
C34_Witness ==
    /\ path = "notready"
    /\ worn_hits = debounce_needed - 1
    /\ worn_run = debounce_needed - 1
    /\ warmup_reads_left = warmup_reads_needed
    /\ bad_run # 0

-----------------------------------------------------------------------------
(* C31: an update_metrics that gets MuseNotReady or an all-zero snapshot
   shows no break popup, sets low_seconds, focus_ema and fatigue_ema to 0 and
   leaves breaks_triggered, last_break_ts and the session statistics
   (samples, focus_sum, the heart-rate and SpO2 sums and counts) as they
   were; the tick after it starts the sustained-low count from 0 again. *)
C31_NotWornPauses ==
    /\ [](spath \in {"notready", "zero"} =>
              low_seconds = 0 /\ focus_ema = 0 /\ fatigue_ema = 0 /\ ~fired)
    /\ [][spath' \in {"notready", "zero"} =>
              /\ popups' = popups
              /\ UNCHANGED <<breaks_triggered, last_break_ts>>
              /\ UNCHANGED <<samples, focus_sum, hr_sum, spo2_sum, hr_samples,
                             spo2_samples>>]_vars
    /\ [][(spath \in {"notready", "zero"}) => (low_seconds' \in {0, 1})]_vars

\* an all-zero snapshot arrives after a break, with the sustained-low count
\* under way again and statistics gathered
C31_Witness ==
    /\ spath = "zero"
    /\ low_before > 0
    /\ breaks_triggered = 1
    /\ last_break_ts > 0
    /\ samples > 0
    /\ focus_sum > 0

-----------------------------------------------------------------------------
(* C33: after every PreSessionScreen._tick the Start-calibration button is
   enabled exactly when the read of that tick returned a status and each of
   its four scores is at least 0.5; each dot is green exactly when its score
   is at least 0.5; and when the read raised, the four dots are red and the
   button is disabled. *)
C33_StartGatedOnAllGreen ==
    /\ start_btn <=> (/\ sq_ret.exc = "none"
                      /\ \A i \in 1..4 : 2 * sq_ret.scores[i] >= ScoreDen)
    /\ sq_ret.exc = "none" =>
           \A i \in 1..4 : dots[i] <=> (2 * sq_ret.scores[i] >= ScoreDen)
    /\ sq_ret.exc # "none" =>
           /\ \A i \in 1..4 : ~dots[i]
           /\ ~start_btn

\* the button is enabled on a read one of whose scores is exactly 0.5
C33_Witness ==
    /\ start_btn
    /\ sq_call = "connected"
    /\ \E i \in 1..4 : 2 * sq_ret.scores[i] = ScoreDen

-----------------------------------------------------------------------------
(* The calibration screen on its own: sample_focus outcomes are drawn from
   CalReads, and start() may be called at any time *)

InitC == BrainIdle /\ SessionIdle /\ ThresholdIdle /\ InitQuality /\ InitCalibration
            /\ InitWatchdog

nonCal == <<brainVars, brainObs, sessionVars, sessionObs, thrVars, sqVars, wdVars, wdObs>>

NextCalibration ==
    \/ CalStart /\ UNCHANGED nonCal
    \/ (\E r \in CalReads : CalTick(r)) /\ UNCHANGED nonCal

SpecCalibration == InitC /\ [][NextCalibration]_vars

(* C32: a calibration run discards its first 2 samples without advancing
   _elapsed, then accepts samples, each within [0, 1], one per tick, and never
   more than `seconds` of them; the tick that accepts sample number `seconds`
   stops the timer and schedules on_done, once, with the element at index
   int(0.65 * n) of the sorted accepted samples, clamped to [0.25, 1.0];
   on_done is scheduled on no other step; and start() while a run is going
   changes nothing. *)
C32_CalibrationRun ==
    /\ [](/\ Len(cal_samples) = cal_elapsed
          /\ cal_elapsed <= CalSeconds
          /\ cal_elapsed = IF cal_warmup_seen <= 2 THEN 0 ELSE cal_warmup_seen - 2
          /\ \A i \in DOMAIN cal_samples : cal_samples[i] >= 0 /\ cal_samples[i] <= 100
          /\ cal_timer <=> cal_running)
    /\ [][cal_last' = "skip" =>
              UNCHANGED <<cal_elapsed, cal_samples, cal_done, cal_timer>>]_vars
    /\ [][(Len(cal_samples') = CalSeconds /\ cal_samples' # cal_samples)
              <=> cal_done' # cal_done]_vars
    /\ [][cal_done' # cal_done =>
              /\ cal_timer /\ ~cal_timer' /\ ~cal_running'
              /\ \E x \in {cal_samples'[i] : i \in DOMAIN cal_samples'} :
                    LET n == Len(cal_samples')
                        idx == (65 * n) \div 100
                        below == Cardinality({i \in 1..n : cal_samples'[i] < x})
                        upto == Cardinality({i \in 1..n : cal_samples'[i] <= x})
                        b == IF x < 25 THEN 25 ELSE IF x > 100 THEN 100 ELSE x
                    IN  /\ below <= idx /\ idx < upto
                        /\ cal_done' = Append(cal_done, b)]_vars
    /\ [][cal_last' = "start_ignored" =>
              UNCHANGED <<cal_running, cal_elapsed, cal_samples, cal_warmup_seen,
                          cal_timer, cal_done>>]_vars

\* a run over the samples 1.0, 0.0, 0.6 has ended and handed on 0.6
C32_Witness ==
    /\ cal_last = "done"
    /\ cal_samples = <<100, 0, 60>>
    /\ cal_done = <<60>>
    /\ cal_warmup_seen = warmup_samples_to_skip + CalSeconds
    /\ ~cal_timer

-----------------------------------------------------------------------------
(* The backend and the session screen together: each session tick calls
   read_metrics and feeds what it returns to update_metrics *)

\* the headset on (three channels inside the deviation band) or off (none)
PipeWindows == { <<0, 1, 300, 2>>, <<50, 40, 300, 45>> }

\* drowsy band powers: focus 0.0, fatigue 1.0
PipeBands == { [theta |-> 60, alpha |-> 20, beta |-> 10] }

\* a score of the backend in the session's whole percent, rounded up so that
\* only an exact 0.0 becomes 0
ToPercent(x, den) == (x * 100 + den - 1) \div den

\* what update_metrics sees of a read_metrics outcome
ToSession(r) ==
    IF r.exc # "none" THEN r
    ELSE Returned(BrainMetrics(ToPercent(r.m.focus, FocusDen * MeanDen),
                               ToPercent(r.m.fatigue, FatigueDen * MeanDen),
                               r.m.heart_rate, r.m.spo2))

pipeRest == <<thrVars, sqVars, wdVars, wdObs, calVars>>

InitP == InitBrain /\ window_sec = 20 /\ SessionIdle /\ ThresholdIdle /\ InitQuality
            /\ InitCalibration /\ InitWatchdog

NextPipeline ==
    \* _ensure_muse on the way to the sensor check
    \/ ~connected /\ StartOk(1) /\ UNCHANGED nonBrain
    \* the calibration's sample_focus ticks, before the session screen is built
    \/ /\ spath = "init"
       /\ \E stds \in PipeWindows, b \in PipeBands : ReadWindow(stds, b)
       /\ UNCHANGED nonBrain
    \* session ticks
    \/ /\ ReadNotReady
       /\ UpdateMetrics(1, ToSession(ret'))
       /\ UNCHANGED pipeRest
    \/ /\ \E stds \in PipeWindows, b \in PipeBands : ReadWindow(stds, b)
       /\ UpdateMetrics(1, ToSession(ret'))
       /\ UNCHANGED pipeRest

SpecPipeline == InitP /\ [][NextPipeline]_vars

(* C35: on a session tick on which the backend's tracked worn state is
   NOT_WORN, update_metrics shows no break popup and the sustained-low counter
   does not advance. *)
C35_NoBreakWhileOff ==
    [][(now' # now /\ ~last_worn') => (~fired' /\ low_seconds' <= low_seconds)]_vars


-----------------------------------------------------------------------------
(* C38: at any moment at most one screen timer, the calibration's or a
   session's, is running and calling read_metrics on the brain. *)
C38_OneTickDriver == Cardinality(ticking) <= 1


-----------------------------------------------------------------------------
(* C37: when the done(True) of an automatic reconnect that the watchdog
   started on the calibration or the session screen is handled and that
   screen is still current, the screen's timer is running. *)
C37_ScreenKeepsTicking ==
    [][(/\ inflight /\ ~inflight'
        /\ done_q # <<>> /\ Head(done_q)
        /\ resume_widget \in {"calibration", "session"}
        /\ screen' = resume_widget)
          => resume_widget \in ticking']_vars


-----------------------------------------------------------------------------
(* C36: the main thread never runs brain.start() (in _ensure_muse, called by
   go_presession, go_calibration and do_retry while the backend is not
   connected) or brain.stop() (in go_device_select,
   forget_device_and_reselect and the modal's Change) while the reconnect
   worker thread is inside its brain.start(). *)
C36_NoOverlappingAttempts ==
    [][(\/ /\ ~connected
           /\ \E ok \in BOOLEAN : GoPresession(ok) \/ GoCalibration(ok) \/ DoRetry(ok)
        \/ GoDeviceSelect
        \/ ModalClose("change"))
          => wpc # "start"]_vars

=============================================================================
